---- MODULE Spec2Model ----
(***************************************************************************)
(* A model of the ketos reader (src/ketos/parser.rs) and of the module     *)
(* namespace (src/ketos/scope.rs).                                          *)
(*                                                                         *)
(* The parser is modelled over a token stream fixed at construction: the   *)
(* Lexer is an external collaborator that hands out (Span, Token) pairs.   *)
(* A Span is modelled by the index of the token in the stream.             *)
(***************************************************************************)
EXTENDS Integers, Sequences, FiniteSets, TLC

VARIABLES
    tokens,           \* Lexer: the (Span, Token) stream it will produce
    lexpos,           \* Lexer: index of the token next_token() returns next
    cur_token,        \* Parser.cur_token: Option<(Span, Token)>, <<>> is None
    op,               \* the public method in progress, "idle" between calls
    pc,               \* position inside the method in progress
    stack,            \* parse_expr local: Vec<Group>
    total_backticks,  \* parse_expr local: i32 counter
    expr,             \* parse_single_expr local: the parsed expression
    res,              \* parse_exprs local: Vec<Value>
    ret,              \* what the last finished call returned
    start,            \* history: cur_token and lexpos when the call began
    scopes,           \* GlobalScope.namespace of every scope
    sret,             \* what the last scope operation returned
    nops,             \* number of scope operations performed
    shared,           \* GlobalScope.name_store/codemap/modules/io of every scope
    name_stores,      \* the NameStore behind every Rc<RefCell<NameStore>>
    withs,            \* the with_* callbacks running, innermost last
    mvalues,          \* MasterValues.next of the iterator get_values() made
    mret,             \* what the last MasterScope operation returned
    fcall,            \* the system function called last and its arguments
    fret,             \* what that call returned
    rcs,              \* the Rc<Struct> allocations: holders and contents
    stdout,           \* GlobalIo.stdout: the writes and flushes it was asked for
    held,             \* the Scope handles (Rc<GlobalScope>) held outside Lambdas
    released,         \* the scopes whose GlobalScope has been dropped
    lams,             \* the Lambda values the host holds
    stored,           \* the Lambdas in each scope's macros, constants, values
    lret              \* what the last upgrade of a Lambda's scope returned

pvars == <<tokens, lexpos, cur_token, op, pc, stack, total_backticks, expr,
           res, ret, start>>
svars == <<scopes, sret, nops, shared, name_stores, withs>>
mvars == <<mvalues, mret>>
fvars == <<fcall, fret, rcs, stdout>>
lvars == <<held, released, lams, stored, lret>>
vars == <<tokens, lexpos, cur_token, op, pc, stack, total_backticks, expr,
          res, ret, start, scopes, sret, nops, shared, name_stores, withs,
          mvalues, mret, fcall, fret, rcs, stdout, held, released, lams,
          stored, lret>>

(***************************************************************************)
(* Bounds of the model.                                                    *)
(***************************************************************************)
MaxTokens == 4

(***************************************************************************)
(* Tokens.                                                                 *)
(***************************************************************************)
Tok(k, l) == [kind |-> k, lex |-> l]

EndTok == Tok("End", "")

AtomKinds == {"Float", "Integer", "Ratio", "Char", "String", "Name", "Keyword"}

\* The tokens the streams of the model are built from: every marker and
\* delimiter, a doc comment, and two leaves that can be told apart.
Alphabet ==
    { Tok("LeftParen", ""), Tok("RightParen", ""), Tok("BackQuote", ""),
      Tok("Comma", ""), Tok("CommaAt", ""), Tok("Quote", ""),
      Tok("DocComment", "doc"), Tok("Name", "a"), Tok("Name", "b") }

\* The lexer ends a stream with End, or fails with a parse error of its own.
Terminators == { EndTok, Tok("LexError", "") }

RECURSIVE SeqsUpTo(_, _)
SeqsUpTo(S, n) ==
    IF n = 0 THEN { <<>> }
    ELSE LET shorter == SeqsUpTo(S, n - 1)
         IN  shorter \cup { Append(s, x) : s \in shorter, x \in S }

Streams == { s \o <<t>> : s \in SeqsUpTo(Alphabet, MaxTokens), t \in Terminators }

\* Token::name(), the text used in UnexpectedToken.found.
TokenName(tok) ==
    CASE tok.kind = "LeftParen"  -> "("
      [] tok.kind = "RightParen" -> ")"
      [] tok.kind = "BackQuote"  -> "backquote"
      [] tok.kind = "Comma"      -> ","
      [] tok.kind = "CommaAt"    -> ",@"
      [] tok.kind = "Quote"      -> "quote"
      [] tok.kind = "DocComment" -> "doc-comment"
      [] tok.kind = "End"        -> "eof"
      [] tok.kind = "Name"       -> "name"
      [] tok.kind = "Keyword"    -> "keyword"
      [] tok.kind = "String"     -> "string"
      [] tok.kind = "Char"       -> "char"
      [] tok.kind = "Integer"    -> "integer"
      [] tok.kind = "Float"      -> "float"
      [] tok.kind = "Ratio"      -> "ratio"

(***************************************************************************)
(* Values.                                                                 *)
(***************************************************************************)
Unit == [tag |-> "Unit"]
List(vs) == [tag |-> "List", items |-> vs]
NameV(n) == [tag |-> "Name", name |-> n]
KeywordV(n) == [tag |-> "Keyword", name |-> n]
BoolV(b) == [tag |-> "Bool", b |-> b]
Literal(k, l) == [tag |-> k, lex |-> l]

\* Value::quote, quasiquote, comma, comma_at: the meta-forms with their depth.
quote(v, n) == [tag |-> "Quote", inner |-> v, depth |-> n]
quasiquote(v, n) == [tag |-> "Quasiquote", inner |-> v, depth |-> n]
comma(v, n) == [tag |-> "Comma", inner |-> v, depth |-> n]
comma_at(v, n) == [tag |-> "CommaAt", inner |-> v, depth |-> n]

\* From<Vec<Value>> for Value: the empty vector is Unit.
VecIntoValue(vs) == IF vs = <<>> THEN Unit ELSE List(vs)

(***************************************************************************)
(* Errors and results.                                                     *)
(***************************************************************************)
ParseError(sp, kind) == [span |-> sp, kind |-> kind, expected |-> "", found |-> ""]

UnexpectedToken(sp, expected, found) ==
    [span |-> sp, kind |-> "UnexpectedToken", expected |-> expected, found |-> found]

Ok(v) == [status |-> "Ok", val |-> v]
Err(e) == [status |-> "Err", err |-> e]
Panic == [status |-> "Panic"]

\* The lexemes whose conversion to a value fails.
Malformed == { "\\q" }

\* string::parse_string / parse_char report the span inside the lexeme they
\* were given, starting from offset 0, not the span of the token.
parse_string(sp, s) ==
    IF s \in Malformed THEN Err(ParseError(0, "UnknownCharEscape"))
    ELSE Ok(Literal("String", s))

parse_char(sp, s) ==
    IF s \in Malformed THEN Err(ParseError(0, "UnknownCharEscape"))
    ELSE Ok(Literal("Char", s))

parse_number(sp, k, s) ==
    IF s \in Malformed THEN Err(ParseError(sp, "LiteralParseError"))
    ELSE Ok(Literal(k, s))

name_value(n) ==
    CASE n = "true"  -> BoolV(TRUE)
      [] n = "false" -> BoolV(FALSE)
      [] OTHER       -> NameV(n)

\* The arms of parse_expr's match that turn a leaf token into a value.
AtomValue(sp, tok) ==
    CASE tok.kind \in {"Float", "Integer", "Ratio"} -> parse_number(sp, tok.kind, tok.lex)
      [] tok.kind = "Char"    -> parse_char(sp, tok.lex)
      [] tok.kind = "String"  -> parse_string(sp, tok.lex)
      [] tok.kind = "Name"    -> Ok(name_value(tok.lex))
      [] tok.kind = "Keyword" -> Ok(KeywordV(tok.lex))

(***************************************************************************)
(* Lexer::next_token and the parser's token buffer.                        *)
(***************************************************************************)
\* A parser position: the buffered token and the lexer's index.
Pos(cur, lp) == [cur |-> cur, lexpos |-> lp]

\* Lexer::next_token: the next (Span, Token), or the lexer's own error.
\* At the end of the input the lexer keeps answering the same.
next_token(lp) ==
    LET t == tokens[lp]
        np == IF lp < Len(tokens) THEN lp + 1 ELSE lp
    IN  IF t.kind = "LexError"
        THEN [r |-> Err(ParseError(lp, "InvalidToken")), lexpos |-> np]
        ELSE [r |-> Ok([span |-> lp, tok |-> t]), lexpos |-> np]

\* Parser::peek_all: the next token, without consuming it.
peek_all(p) ==
    IF p.cur # <<>> THEN [r |-> Ok(p.cur[1]), p |-> p]
    ELSE LET n == next_token(p.lexpos)
         IN  IF n.r.status = "Err"
             THEN [r |-> n.r, p |-> Pos(<<>>, n.lexpos)]
             ELSE [r |-> n.r, p |-> Pos(<<n.r.val>>, n.lexpos)]

\* next consuming the token after the one it returns as well.
next_TakesTwo(p) ==
    LET a == peek_all(p)
    IN  IF a.r.status = "Err" THEN a
        ELSE [r |-> a.r, p |-> Pos(<<>>, next_token(a.p.lexpos).lexpos)]

\* Parser::next: the next token, consumed.
next(p) ==
    LET a == peek_all(p)
    IN  IF a.r.status = "Err" THEN a
        ELSE [r |-> a.r, p |-> Pos(<<>>, a.p.lexpos)]

\* Parser::peek: the next token that is no DocComment, without consuming it.
RECURSIVE peek(_)
peek(p) ==
    LET a == peek_all(p)
    IN  IF a.r.status = "Err" THEN a
        ELSE IF a.r.val.tok.kind = "DocComment" THEN peek(Pos(<<>>, a.p.lexpos))
        ELSE a

(***************************************************************************)
(* Parser::parse_expr.                                                     *)
(***************************************************************************)
Backticks(n) == [g |-> "Backticks", n |-> n, values |-> <<>>]
CommaAtGroup == [g |-> "CommaAt", n |-> 0, values |-> <<>>]
Quotes(n) == [g |-> "Quotes", n |-> n, values |-> <<>>]
Parens(vs) == [g |-> "Parens", n |-> 0, values |-> vs]

Last(s) == s[Len(s)]
Front(s) == SubSeq(s, 1, Len(s) - 1)
TopIs(st, g) == st # <<>> /\ Last(st).g = g
SetTop(st, grp) == [st EXCEPT ![Len(st)] = grp]

\* What an arm of the match leaves behind: "continue" goes to the next token,
\* "value" hands r to `try!(r)` and the settling loop, "return" and "panic"
\* leave parse_expr at once.
Arm(ctl, r, st, tb) == [ctl |-> ctl, r |-> r, stack |-> st, total |-> tb]

OnLeftParen(st, tb) == Arm("continue", Panic, Append(st, Parens(<<>>)), tb)

OnRightParen(sp, st, tb) ==
    IF st = <<>>
    THEN Arm("return", Err(ParseError(sp, "UnmatchedParen")), st, tb)
    ELSE IF Last(st).g = "Parens"
    THEN Arm("value", Ok(VecIntoValue(Last(st).values)), Front(st), tb)
    ELSE Arm("value", Err(UnexpectedToken(sp, "expression", ")")), Front(st), tb)

OnBackQuote(st, tb) ==
    IF TopIs(st, "Backticks")
    THEN Arm("continue", Panic, SetTop(st, Backticks(Last(st).n + 1)), tb + 1)
    ELSE Arm("continue", Panic, Append(st, Backticks(1)), tb + 1)

\* OnComma with the balance test off by one: a comma is let through at 0.
OnComma_OffByOne(sp, st, tb) ==
    IF tb < 0
    THEN Arm("return", Err(ParseError(sp, "UnbalancedComma")), st, tb)
    ELSE IF TopIs(st, "Backticks")
    THEN Arm("continue", Panic, SetTop(st, Backticks(Last(st).n - 1)), tb - 1)
    ELSE Arm("continue", Panic, Append(st, Backticks(-1)), tb - 1)

\* OnComma without the merge into the Backticks group on top.
OnComma_NoCollapse(sp, st, tb) ==
    IF tb <= 0
    THEN Arm("return", Err(ParseError(sp, "UnbalancedComma")), st, tb)
    ELSE Arm("continue", Panic, Append(st, Backticks(-1)), tb - 1)

OnComma(sp, st, tb) ==
    IF tb <= 0
    THEN Arm("return", Err(ParseError(sp, "UnbalancedComma")), st, tb)
    ELSE IF TopIs(st, "Backticks")
    THEN Arm("continue", Panic, SetTop(st, Backticks(Last(st).n - 1)), tb - 1)
    ELSE Arm("continue", Panic, Append(st, Backticks(-1)), tb - 1)

OnCommaAt(sp, st, tb) ==
    IF tb <= 0
    THEN Arm("return", Err(ParseError(sp, "UnbalancedComma")), st, tb)
    ELSE Arm("continue", Panic, Append(st, CommaAtGroup), tb - 1)

\* OnQuote stacking one group per quote instead of counting them.
OnQuote_Nested(st, tb) == Arm("continue", Panic, Append(st, Quotes(1)), tb)

OnQuote(st, tb) ==
    IF TopIs(st, "Quotes")
    THEN Arm("continue", Panic, SetTop(st, Quotes(Last(st).n + 1)), tb)
    ELSE Arm("continue", Panic, Append(st, Quotes(1)), tb)

\* OnEnd looking for a Parens group on top of the stack only.
OnEnd_TopOnly(sp, st, tb) ==
    IF TopIs(st, "Parens")
    THEN Arm("value", Err(ParseError(sp, "MissingCloseParen")), st, tb)
    ELSE Arm("value", Err(ParseError(sp, "UnexpectedEof")), st, tb)

OnEnd(sp, st, tb) ==
    LET any_paren == \E i \in 1..Len(st) : st[i].g = "Parens"
    IN  IF any_paren
        THEN Arm("value", Err(ParseError(sp, "MissingCloseParen")), st, tb)
        ELSE Arm("value", Err(ParseError(sp, "UnexpectedEof")), st, tb)

\* `let r = match tok { ... }`
MatchToken(sp, tok, st, tb) ==
    CASE tok.kind = "DocComment" -> Arm("panic", Panic, st, tb)
      [] tok.kind = "LeftParen"  -> OnLeftParen(st, tb)
      [] tok.kind = "RightParen" -> OnRightParen(sp, st, tb)
      [] tok.kind \in AtomKinds  -> Arm("value", AtomValue(sp, tok), st, tb)
      [] tok.kind = "BackQuote"  -> OnBackQuote(st, tb)
      [] tok.kind = "Comma"      -> OnComma(sp, st, tb)
      [] tok.kind = "CommaAt"    -> OnCommaAt(sp, st, tb)
      [] tok.kind = "Quote"      -> OnQuote(st, tb)
      [] tok.kind = "End"        -> OnEnd(sp, st, tb)

\* ApplyGroup leaving the counter alone when it pops a CommaAt group.
ApplyGroup_CommaAtKept(group, v, tb) ==
    CASE group.g = "Backticks" /\ group.n > 0 ->
            [v |-> quasiquote(v, group.n), total |-> tb - group.n]
      [] group.g = "Backticks" /\ group.n < 0 ->
            [v |-> comma(v, -group.n), total |-> tb - group.n]
      [] group.g = "CommaAt" -> [v |-> comma_at(v, 1), total |-> tb]
      [] group.g = "Quotes"  -> [v |-> quote(v, group.n), total |-> tb]
      [] OTHER               -> [v |-> v, total |-> tb]

\* One popped group applied to the value being settled.
ApplyGroup(group, v, tb) ==
    CASE group.g = "Backticks" /\ group.n > 0 ->
            [v |-> quasiquote(v, group.n), total |-> tb - group.n]
      [] group.g = "Backticks" /\ group.n < 0 ->
            [v |-> comma(v, -group.n), total |-> tb - group.n]
      [] group.g = "CommaAt" -> [v |-> comma_at(v, 1), total |-> tb + 1]
      [] group.g = "Quotes"  -> [v |-> quote(v, group.n), total |-> tb]
      [] OTHER               -> [v |-> v, total |-> tb]

RECURSIVE Settle_Prepend(_, _, _)
\* Settle putting the value in front of the values collected so far.
Settle_Prepend(st, tb, v) ==
    IF st = <<>> THEN Arm("return", Ok(v), st, tb)
    ELSE IF Last(st).g = "Parens"
    THEN Arm("continue", Panic,
             SetTop(st, Parens(<<v>> \o Last(st).values)), tb)
    ELSE LET a == ApplyGroup(Last(st), v, tb)
         IN  Settle_Prepend(Front(st), a.total, a.v)

\* The inner loop: v is pushed into the innermost Parens group, or returned
\* when no group is left; the markers on the way are applied to it.
RECURSIVE Settle(_, _, _)
Settle(st, tb, v) ==
    IF st = <<>> THEN Arm("return", Ok(v), st, tb)
    ELSE IF Last(st).g = "Parens"
    THEN Arm("continue", Panic,
             SetTop(st, Parens(Append(Last(st).values, v))), tb)
    ELSE LET a == ApplyGroup(Last(st), v, tb)
         IN  Settle(Front(st), a.total, a.v)

\* The locals and the position of a parse_expr call in progress.
Frame(p, st, tb) == [p |-> p, stack |-> st, total |-> tb]

\* One iteration of the outer loop of parse_expr.
Iter(f) ==
    LET n == next(f.p)
    IN  IF n.r.status = "Err"
        THEN [ctl |-> "return", r |-> n.r, f |-> Frame(n.p, f.stack, f.total)]
        ELSE
        LET m == MatchToken(n.r.val.span, n.r.val.tok, f.stack, f.total)
        IN  IF m.ctl # "value"
            THEN [ctl |-> m.ctl, r |-> m.r, f |-> Frame(n.p, m.stack, m.total)]
            ELSE IF m.r.status = "Err"
            THEN [ctl |-> "return", r |-> m.r, f |-> Frame(n.p, m.stack, m.total)]
            ELSE LET s == Settle(m.stack, m.total, m.r.val)
                 IN  [ctl |-> s.ctl, r |-> s.r, f |-> Frame(n.p, s.stack, s.total)]

\* parse_expr as a whole, from a position: its result and where it stops.
RECURSIVE RunFrom(_)
RunFrom(f) ==
    LET i == Iter(f)
    IN  IF i.ctl = "continue" THEN RunFrom(i.f)
        ELSE [r |-> (IF i.ctl = "panic" THEN Panic ELSE i.r), f |-> i.f]

parse_expr(p) == RunFrom(Frame(p, <<>>, 0))

(***************************************************************************)
(* The parser as a state machine: the client calls the public methods one  *)
(* after the other; parse_expr advances by one token per step.             *)
(***************************************************************************)
NoRet == [op |-> "none", r |-> [status |-> "None"]]
Returned(o, r) == [op |-> o, r |-> r]

\* Index in the stream of the token the parser will process next.
PendingIdx(p) == IF p.cur # <<>> THEN p.cur[1].span ELSE p.lexpos

Here == Pos(cur_token, lexpos)

ScopeIdle == UNCHANGED <<svars, mvars, fvars, lvars>>

\* Entering parse_expr: `let mut stack = Vec::new(); let mut total_backticks = 0;`
EnterParseExpr ==
    /\ pc' = "expr"
    /\ stack' = <<>>
    /\ total_backticks' = 0

\* A call begins: the locals of the call before it are gone, and so is its
\* result.
Begin(o) ==
    /\ op = "idle"
    /\ op' = o
    /\ start' = Here
    /\ ret' = NoRet
    /\ expr' = Unit
    /\ res' = <<>>
    /\ UNCHANGED <<tokens, lexpos, cur_token>>
    /\ ScopeIdle

CallParseExpr ==
    /\ Begin("parse_expr")
    /\ EnterParseExpr

CallParseSingleExpr ==
    /\ Begin("parse_single_expr")
    /\ EnterParseExpr

\* parse_exprs: `let mut res = Vec::new();`, then the loop.
CallParseExprs ==
    /\ Begin("parse_exprs")
    /\ pc' = "peek"
    /\ stack' = <<>>
    /\ total_backticks' = 0

\* The call in progress returns r to the client.
Return(r) ==
    /\ ret' = Returned(op, r)
    /\ op' = "idle"
    /\ pc' = "idle"

\* The call in progress aborts: nothing runs after it.
Abort ==
    /\ ret' = Returned(op, Panic)
    /\ pc' = "panicked"
    /\ UNCHANGED op

\* parse_expr returned r to the method that called it.
AfterParseExpr(r) ==
    CASE op = "parse_expr" ->
            Return(r) /\ UNCHANGED <<expr, res>>
      [] op = "parse_single_expr" /\ r.status = "Err" ->
            Return(r) /\ UNCHANGED <<expr, res>>
      [] op = "parse_single_expr" /\ r.status = "Ok" ->
            /\ expr' = r.val
            /\ pc' = "tail"
            /\ UNCHANGED <<op, res, ret>>
      [] op = "parse_exprs" /\ r.status = "Err" ->
            Return(r) /\ UNCHANGED <<expr, res>>
      [] op = "parse_exprs" /\ r.status = "Ok" ->
            /\ res' = Append(res, r.val)
            /\ pc' = "peek"
            /\ UNCHANGED <<op, expr, ret>>

\* One iteration of parse_expr's loop: a token is read and handled.
ParseExprStep ==
    /\ pc = "expr"
    /\ LET i == Iter(Frame(Here, stack, total_backticks))
       IN  /\ cur_token' = i.f.p.cur
           /\ lexpos' = i.f.p.lexpos
           /\ stack' = i.f.stack
           /\ total_backticks' = i.f.total
           /\ CASE i.ctl = "continue" -> UNCHANGED <<op, pc, expr, res, ret>>
                [] i.ctl = "panic"    -> Abort /\ UNCHANGED <<expr, res>>
                [] i.ctl = "return"   -> AfterParseExpr(i.r)
    /\ UNCHANGED <<tokens, start>>
    /\ ScopeIdle

\* SingleExprTail letting any token follow the expression.
SingleExprTail_AcceptAny(p, e) ==
    LET nx == next(p)
    IN  IF nx.r.status = "Err" THEN nx ELSE [r |-> Ok(e), p |-> nx.p]

\* parse_single_expr after parse_expr: the next token must be End.
SingleExprTail(p, e) ==
    LET nx == next(p)
    IN  IF nx.r.status = "Err" THEN nx
        ELSE IF nx.r.val.tok.kind = "End" THEN [r |-> Ok(e), p |-> nx.p]
        ELSE [r |-> Err(UnexpectedToken(nx.r.val.span, "eof", TokenName(nx.r.val.tok))),
              p |-> nx.p]

ParseSingleExprTail ==
    /\ op = "parse_single_expr"
    /\ pc = "tail"
    /\ LET t == SingleExprTail(Here, expr)
       IN  /\ cur_token' = t.p.cur
           /\ lexpos' = t.p.lexpos
           /\ Return(t.r)
    /\ UNCHANGED <<tokens, stack, total_backticks, expr, res, start>>
    /\ ScopeIdle

\* The head of parse_exprs' loop: peek, then break on End or parse_expr.
ParseExprsPeek ==
    /\ op = "parse_exprs"
    /\ pc = "peek"
    /\ LET a == peek(Here)
       IN  /\ cur_token' = a.p.cur
           /\ lexpos' = a.p.lexpos
           /\ IF a.r.status = "Err"
              THEN Return(a.r) /\ UNCHANGED <<stack, total_backticks>>
              ELSE IF a.r.val.tok.kind = "End"
              THEN Return(Ok(res)) /\ UNCHANGED <<stack, total_backticks>>
              ELSE EnterParseExpr /\ UNCHANGED <<op, ret>>
    /\ UNCHANGED <<tokens, expr, res, start>>
    /\ ScopeIdle

\* Option<&str> of read_doc_comment.
Some(d) == [some |-> TRUE, doc |-> d]
None == [some |-> FALSE, doc |-> ""]

read_doc_comment(p) ==
    LET a == peek_all(p)
    IN  IF a.r.status = "Err" THEN a
        ELSE IF a.r.val.tok.kind = "DocComment"
        THEN [r |-> Ok(Some(a.r.val.tok.lex)), p |-> a.p]
        ELSE [r |-> Ok(None), p |-> a.p]

ReadDocComment ==
    /\ op = "idle"
    /\ LET d == read_doc_comment(Here)
       IN  /\ cur_token' = d.p.cur
           /\ lexpos' = d.p.lexpos
           /\ ret' = Returned("read_doc_comment", d.r)
    /\ start' = Here
    /\ stack' = <<>>
    /\ total_backticks' = 0
    /\ expr' = Unit
    /\ res' = <<>>
    /\ UNCHANGED <<tokens, op, pc>>
    /\ ScopeIdle

(***************************************************************************)
(* GlobalScope and its Namespace.  `scopes` holds the namespace of every   *)
(* scope made so far; scope 1 is made by GlobalScope::new, the others by   *)
(* new_using.                                                              *)
(***************************************************************************)
MaxScopes == 2
MaxOps == 4

\* The names and the values the scope operations are called with.
Names == {"x", "y"}
Vals == {1, 2}
Lambdas == {"f", "g"}

\* NameSetSlice: a slice of names, each at most once.
ExportLists == { e \in SeqsUpTo(Names, Cardinality(Names)) :
                    \A i, j \in 1..Len(e) : e[i] = e[j] => i = j }

\* NameMap: at most one value per name.
EmptyMap == [n \in {} |-> 0]
MapInsert(m, n, v) == [k \in DOMAIN m \cup {n} |-> IF k = n THEN v ELSE m[k]]
MapContains(m, n) == n \in DOMAIN m

\* ImportSet::new(module_name): the import sets add_imports is called with.
ImportSets == {[module_name |-> "x", constants |-> <<>>, macros |-> <<>>,
                values |-> <<>>]}

\* The strings add_name is called with.
Strings == {"s", "t"}

\* NameStore: the strings interned so far; the handle of a string is its
\* position.  add returns the handle the string already has, or appends it.
NameStore_new == <<>>
NameStore_contains(store, name) == \E i \in 1..Len(store) : store[i] = name
NameStore_get_name(store, name) == CHOOSE i \in 1..Len(store) : store[i] = name
NameStore_add(store, name) ==
    IF NameStore_contains(store, name)
    THEN [store |-> store, name |-> NameStore_get_name(store, name)]
    ELSE [store |-> Append(store, name), name |-> Len(store) + 1]

\* Namespace::new
Namespace_new ==
    [constants |-> EmptyMap, macros |-> EmptyMap, values |-> EmptyMap,
     exports |-> <<>>, imports |-> <<>>]

RECURSIVE ImportLoop(_, _, _, _, _)
\* `for name in exports { if let Some(m) = other.<field>.get(name).cloned()
\*  { names.push(name); self.<field>.insert(name, m); } }`
ImportLoop(field, self, other, exports, names) ==
    IF exports = <<>> THEN [ns |-> self, names |-> names]
    ELSE LET name == Head(exports)
         IN  IF MapContains(other[field], name)
             THEN ImportLoop(field,
                      [self EXCEPT ![field] = MapInsert(self[field], name, other[field][name])],
                      other, Tail(exports), Append(names, name))
             ELSE ImportLoop(field, self, other, Tail(exports), names)

\* Namespace_import_all going through everything the other namespace binds,
\* exported or not.
Namespace_import_all_Leaky(field, self, other) ==
    ImportLoop(field, self, other, <<"x", "y">>, <<>>)

\* Namespace::import_all_constants / import_all_macros / import_all_values
Namespace_import_all(field, self, other) ==
    IF other.exports = <<>> THEN [ns |-> self, names |-> <<>>]
    ELSE ImportLoop(field, self, other, other.exports[1], <<>>)

Namespace_import_all_constants(self, other) ==
    Namespace_import_all("constants", self, other)
Namespace_import_all_macros(self, other) ==
    Namespace_import_all("macros", self, other)
Namespace_import_all_values(self, other) ==
    Namespace_import_all("values", self, other)

\* NameMap::get(name).cloned()
MapGet(m, n) == IF MapContains(m, n) THEN Some(m[n]) ELSE None

\* GlobalScope::get_constant / get_macro / get_value and contains_*, on the
\* borrowed namespace ns of the scope.
get_constant(ns, name) == MapGet(ns.constants, name)
get_macro(ns, name) == MapGet(ns.macros, name)
get_value(ns, name) == MapGet(ns.values, name)
contains_constant(ns, name) == MapContains(ns.constants, name)
contains_macro(ns, name) == MapContains(ns.macros, name)
contains_value(ns, name) == MapContains(ns.values, name)

\* GlobalScope::contains_name
contains_name(ns, name) ==
    \/ MapContains(ns.constants, name)
    \/ MapContains(ns.macros, name)
    \/ MapContains(ns.values, name)

ScopeIds == 1..Len(scopes)

\* A finished call: the method, the scope it was called on, the scope it
\* was given, its other arguments and what it returned.
ScopeCall(o, d, s, a, r) == [op |-> o, dst |-> d, src |-> s, args |-> a, r |-> r]

ScopeRet(o, d, s, r) == ScopeCall(o, d, s, <<>>, r)

ParserIdle == UNCHANGED <<pvars, mvars, fvars, lvars>>

\* RefCell<Namespace>: a with_exports / with_imports / with_constants /
\* with_macros / with_values callback of the scope is running, so a
\* `namespace.borrow()` of it is live.
NsBorrowed(s) ==
    \E i \in DOMAIN withs : withs[i].scope = s /\ withs[i].method # "with_name"

\* RefCell<NameStore>: a with_name callback of a scope holding the same
\* name store is running, so a `name_store.borrow()` is live.
NamesBorrowed(s) ==
    \E i \in DOMAIN withs :
        /\ withs[i].method = "with_name"
        /\ shared[withs[i].scope].name_store = shared[s].name_store

\* A scope operation may run: nothing has aborted, and the model's budget
\* of operations is not used up.
ScopeReady == sret.r.status # "Panic" /\ nops < MaxOps

\* new_using giving the new scope a name store of its own, a copy of the
\* one of the given scope.
NewUsing_OwnStore(s) ==
    /\ sret.r.status # "Panic"
    /\ Len(scopes) < MaxScopes
    /\ scopes' = Append(scopes, Namespace_new)
    /\ name_stores' = Append(name_stores, name_stores[shared[s].name_store])
    /\ shared' = Append(shared, [shared[s] EXCEPT !.name_store = Len(name_stores) + 1])
    /\ sret' = ScopeRet("new_using", Len(scopes) + 1, s, Ok(0))
    /\ UNCHANGED <<nops, withs>>
    /\ ParserIdle

\* new_using copying the namespace of the given scope.
NewUsing_CloneNamespace(s) ==
    /\ sret.r.status # "Panic"
    /\ Len(scopes) < MaxScopes
    /\ scopes' = Append(scopes, scopes[s])
    /\ shared' = Append(shared, shared[s])
    /\ sret' = ScopeRet("new_using", Len(scopes) + 1, s, Ok(0))
    /\ UNCHANGED <<nops, name_stores, withs>>
    /\ ParserIdle

\* GlobalScope::new_using
NewUsing(s) ==
    /\ sret.r.status # "Panic"
    /\ Len(scopes) < MaxScopes
    /\ scopes' = Append(scopes, Namespace_new)
    /\ shared' = Append(shared, shared[s])
    /\ sret' = ScopeRet("new_using", Len(scopes) + 1, s, Ok(0))
    /\ UNCHANGED <<nops, name_stores, withs>>
    /\ ParserIdle

\* add_constant on a map whose insert keeps the binding a name already has.
AddConstant_KeepFirst(s, n, v) ==
    /\ ScopeReady
    /\ scopes' = [scopes EXCEPT ![s].constants =
                      IF MapContains(@, n) THEN @ ELSE MapInsert(@, n, v)]
    /\ sret' = ScopeCall("add_constant", s, s, <<n, v>>, Ok(0))
    /\ nops' = nops + 1
    /\ UNCHANGED <<shared, name_stores, withs>>
    /\ ParserIdle

\* GlobalScope::add_constant
AddConstant(s, n, v) ==
    /\ ScopeReady
    /\ IF NsBorrowed(s)
       THEN /\ sret' = ScopeCall("add_constant", s, s, <<n, v>>, Panic)
            /\ UNCHANGED scopes
       ELSE /\ scopes' = [scopes EXCEPT ![s].constants = MapInsert(@, n, v)]
            /\ sret' = ScopeCall("add_constant", s, s, <<n, v>>, Ok(0))
    /\ nops' = nops + 1
    /\ UNCHANGED <<shared, name_stores, withs>>
    /\ ParserIdle

\* GlobalScope::add_macro
AddMacro(s, n, l) ==
    /\ ScopeReady
    /\ IF NsBorrowed(s)
       THEN /\ sret' = ScopeCall("add_macro", s, s, <<n, l>>, Panic)
            /\ UNCHANGED scopes
       ELSE /\ scopes' = [scopes EXCEPT ![s].macros = MapInsert(@, n, l)]
            /\ sret' = ScopeCall("add_macro", s, s, <<n, l>>, Ok(0))
    /\ nops' = nops + 1
    /\ UNCHANGED <<shared, name_stores, withs>>
    /\ ParserIdle

\* add_value on a namespace with one key space: binding the value of a
\* name drops the constant and the macro of that name.
AddValue_OneKeySpace(s, n, v) ==
    /\ ScopeReady
    /\ scopes' = [scopes EXCEPT
          ![s].values = MapInsert(@, n, v),
          ![s].constants = [k \in DOMAIN @ \ {n} |-> @[k]],
          ![s].macros = [k \in DOMAIN @ \ {n} |-> @[k]]]
    /\ sret' = ScopeCall("add_value", s, s, <<n, v>>, Ok(0))
    /\ nops' = nops + 1
    /\ UNCHANGED <<shared, name_stores, withs>>
    /\ ParserIdle

\* add_value on a namespace that is not behind a RefCell: the binding is
\* written whether or not a borrow of the namespace is live.
AddValue_Unguarded(s, n, v) ==
    /\ ScopeReady
    /\ scopes' = [scopes EXCEPT ![s].values = MapInsert(@, n, v)]
    /\ sret' = ScopeCall("add_value", s, s, <<n, v>>, Ok(0))
    /\ nops' = nops + 1
    /\ UNCHANGED <<shared, name_stores, withs>>
    /\ ParserIdle

\* GlobalScope::add_value
AddValue(s, n, v) ==
    /\ ScopeReady
    /\ IF NsBorrowed(s)
       THEN /\ sret' = ScopeCall("add_value", s, s, <<n, v>>, Panic)
            /\ UNCHANGED scopes
       ELSE /\ scopes' = [scopes EXCEPT ![s].values = MapInsert(@, n, v)]
            /\ sret' = ScopeCall("add_value", s, s, <<n, v>>, Ok(0))
    /\ nops' = nops + 1
    /\ UNCHANGED <<shared, name_stores, withs>>
    /\ ParserIdle

\* GlobalScope::add_imports, Namespace::add_imports
AddImports(s, imports) ==
    /\ ScopeReady
    /\ IF NsBorrowed(s)
       THEN /\ sret' = ScopeCall("add_imports", s, s, <<imports>>, Panic)
            /\ UNCHANGED scopes
       ELSE /\ scopes' = [scopes EXCEPT ![s].imports = Append(@, imports)]
            /\ sret' = ScopeCall("add_imports", s, s, <<imports>>, Ok(0))
    /\ nops' = nops + 1
    /\ UNCHANGED <<shared, name_stores, withs>>
    /\ ParserIdle

\* GlobalScope::add_name: interns the string in the scope's name store.
AddName(s, name) ==
    /\ ScopeReady
    /\ IF NamesBorrowed(s)
       THEN /\ sret' = ScopeCall("add_name", s, s, <<name>>, Panic)
            /\ UNCHANGED name_stores
       ELSE /\ name_stores' = [name_stores EXCEPT ![shared[s].name_store] =
                                                 NameStore_add(@, name).store]
            /\ sret' = ScopeCall("add_name", s, s, <<name>>,
                         Ok(NameStore_add(name_stores[shared[s].name_store], name).name))
    /\ nops' = nops + 1
    /\ UNCHANGED <<scopes, shared, withs>>
    /\ ParserIdle

\* GlobalScope::set_exports
SetExports(s, e) ==
    /\ ScopeReady
    /\ IF NsBorrowed(s)
       THEN /\ sret' = ScopeCall("set_exports", s, s, <<e>>, Panic)
            /\ UNCHANGED scopes
       ELSE /\ scopes' = [scopes EXCEPT ![s].exports = <<e>>]
            /\ sret' = ScopeCall("set_exports", s, s, <<e>>, Ok(0))
    /\ nops' = nops + 1
    /\ UNCHANGED <<shared, name_stores, withs>>
    /\ ParserIdle

\* GlobalScope::import_all_constants / _macros / _values.  The namespace of
\* self is borrowed mutably, which aborts the call when a borrow of it is
\* live; then that of other is borrowed: when both are the same RefCell
\* the second borrow aborts the call.
GlobalImportAll(o, d, s, imp) ==
    /\ ScopeReady
    /\ IF NsBorrowed(d) \/ d = s
       THEN /\ sret' = ScopeRet(o, d, s, Panic)
            /\ UNCHANGED scopes
       ELSE /\ scopes' = [scopes EXCEPT ![d] = imp.ns]
            /\ sret' = ScopeRet(o, d, s, Ok(imp.names))
    /\ nops' = nops + 1
    /\ UNCHANGED <<shared, name_stores, withs>>
    /\ ParserIdle

ImportAllConstants(d, s) ==
    GlobalImportAll("import_all_constants", d, s,
                    Namespace_import_all_constants(scopes[d], scopes[s]))

ImportAllMacros(d, s) ==
    GlobalImportAll("import_all_macros", d, s,
                    Namespace_import_all_macros(scopes[d], scopes[s]))

ImportAllValues(d, s) ==
    GlobalImportAll("import_all_values", d, s,
                    Namespace_import_all_values(scopes[d], scopes[s]))

\* GlobalScope::with_name / with_exports / with_imports / with_constants /
\* with_macros / with_values, up to the call of f: the RefCell is borrowed
\* and stays so while the callback runs.
WithMethods == {"with_name", "with_exports", "with_imports", "with_constants",
                "with_macros", "with_values"}

WithEnter(m, s) ==
    /\ ScopeReady
    /\ withs' = Append(withs, [method |-> m, scope |-> s])
    /\ sret' = ScopeRet(m, s, s, [status |-> "None"])
    /\ nops' = nops + 1
    /\ UNCHANGED <<scopes, shared, name_stores>>
    /\ ParserIdle

\* The innermost callback returns: its borrow is dropped and the with_*
\* call returns what f returned.
WithExit ==
    /\ sret.r.status # "Panic"
    /\ withs # <<>>
    /\ withs' = SubSeq(withs, 1, Len(withs) - 1)
    /\ sret' = ScopeRet(withs[Len(withs)].method, withs[Len(withs)].scope,
                        withs[Len(withs)].scope, Ok(0))
    /\ UNCHANGED <<scopes, nops, shared, name_stores>>
    /\ ParserIdle

\* GlobalScope::new: one scope, with an empty namespace.
ScopeInit ==
    /\ withs = <<>>
    /\ scopes = <<Namespace_new>>
    /\ sret = ScopeRet("none", 0, 0, [status |-> "None"])
    /\ nops = 0
    /\ shared = <<[name_store |-> 1, codemap |-> 1, modules |-> 1, io |-> 1]>>
    /\ name_stores = <<NameStore_new>>

\* Parser::new on an empty input.
ParserInit(stream) ==
    /\ tokens = stream
    /\ lexpos = 1
    /\ cur_token = <<>>
    /\ op = "idle"
    /\ pc = "idle"
    /\ stack = <<>>
    /\ total_backticks = 0
    /\ expr = Unit
    /\ res = <<>>
    /\ ret = NoRet
    /\ start = Pos(<<>>, 1)

(***************************************************************************)
(* The system-function table (function.rs) and MasterScope.  A Name is its *)
(* handle, a small integer; the standard names are the handles from 0.     *)
(***************************************************************************)
\* Arity
Exact(n) == [arity |-> "Exact", min |-> n, max |-> n]
Min(n) == [arity |-> "Min", min |-> n, max |-> n]
Range(lo, hi) == [arity |-> "Range", min |-> lo, max |-> hi]

\* Arity::accepts with Min(min) accepting every number of arguments.
accepts_MinAny(self, n) ==
    CASE self.arity = "Exact" -> n = self.min
      [] self.arity = "Min"   -> TRUE
      [] self.arity = "Range" -> n >= self.min /\ n <= self.max

\* Arity::accepts
accepts(self, n) ==
    CASE self.arity = "Exact" -> n = self.min
      [] self.arity = "Min"   -> n >= self.min
      [] self.arity = "Range" -> n >= self.min /\ n <= self.max

\* sys_fn!
sys_fn(callback, arity) == [arity |-> arity, callback |-> callback]

SYSTEM_FNS == <<
    sys_fn("fn_add", Min(0)),
    sys_fn("fn_sub", Min(1)),
    sys_fn("fn_mul", Min(0)),
    sys_fn("fn_pow", Exact(2)),
    sys_fn("fn_div", Min(1)),
    sys_fn("fn_floor_div", Min(1)),
    sys_fn("fn_rem", Exact(2)),
    sys_fn("fn_shl", Exact(2)),
    sys_fn("fn_shr", Exact(2)),
    sys_fn("fn_eq", Min(2)),
    sys_fn("fn_ne", Min(2)),
    sys_fn("fn_lt", Min(2)),
    sys_fn("fn_gt", Min(2)),
    sys_fn("fn_le", Min(2)),
    sys_fn("fn_ge", Min(2)),
    sys_fn("fn_zero", Min(1)),
    sys_fn("fn_max", Min(1)),
    sys_fn("fn_min", Min(1)),
    sys_fn("fn_append", Min(1)),
    sys_fn("fn_elt", Exact(2)),
    sys_fn("fn_concat", Min(1)),
    sys_fn("fn_join", Min(1)),
    sys_fn("fn_len", Exact(1)),
    sys_fn("fn_slice", Exact(3)),
    sys_fn("fn_first", Exact(1)),
    sys_fn("fn_second", Exact(1)),
    sys_fn("fn_last", Exact(1)),
    sys_fn("fn_init", Exact(1)),
    sys_fn("fn_tail", Exact(1)),
    sys_fn("fn_list", Min(0)),
    sys_fn("fn_reverse", Exact(1)),
    sys_fn("fn_abs", Exact(1)),
    sys_fn("fn_ceil", Exact(1)),
    sys_fn("fn_floor", Exact(1)),
    sys_fn("fn_round", Exact(1)),
    sys_fn("fn_trunc", Exact(1)),
    sys_fn("fn_int", Exact(1)),
    sys_fn("fn_float", Exact(1)),
    sys_fn("fn_inf", Min(0)),
    sys_fn("fn_nan", Min(0)),
    sys_fn("fn_denom", Exact(1)),
    sys_fn("fn_fract", Exact(1)),
    sys_fn("fn_numer", Exact(1)),
    sys_fn("fn_rat", Range(1, 2)),
    sys_fn("fn_recip", Exact(1)),
    sys_fn("fn_chars", Exact(1)),
    sys_fn("fn_string", Exact(1)),
    sys_fn("fn_id", Exact(1)),
    sys_fn("fn_is", Exact(2)),
    sys_fn("fn_is_instance", Exact(2)),
    sys_fn("fn_null", Exact(1)),
    sys_fn("fn_type_of", Exact(1)),
    sys_fn("fn_dot", Exact(2)),
    sys_fn("fn_dot_eq", Min(1)),
    sys_fn("fn_new", Min(1)),
    sys_fn("fn_format", Min(1)),
    sys_fn("fn_print", Min(1)),
    sys_fn("fn_println", Min(1)),
    sys_fn("fn_panic", Range(0, 1)),
    sys_fn("fn_xor", Exact(2)),
    sys_fn("fn_not", Exact(1)) >>

\* The array type [SystemFn; NUM_SYSTEM_FNS] fixes the length of the table.
NUM_SYSTEM_FNS == Len(SYSTEM_FNS)

\* The name handle of the table entry whose callback is cb.
HandleOf(cb) == CHOOSE f \in 0..(NUM_SYSTEM_FNS - 1) : SYSTEM_FNS[f + 1].callback = cb

\* name.rs: the standard names in handle order are the names of the system
\* functions, then true and false, then the system operators.
TRUE_NAME == NUM_SYSTEM_FNS
FALSE_NAME == NUM_SYSTEM_FNS + 1
NUM_STANDARD_VALUES == NUM_SYSTEM_FNS + 2
NumSystemOperators == 14
SYSTEM_OPERATORS_END == NUM_STANDARD_VALUES + NumSystemOperators

\* Names interned by user code follow the standard names.
MaxUserNames == 3
NameHandles == 0..(SYSTEM_OPERATORS_END + MaxUserNames - 1)

is_standard_value(name) == name < NUM_STANDARD_VALUES
is_system_operator(name) ==
    name >= NUM_STANDARD_VALUES /\ name < SYSTEM_OPERATORS_END
get_system_fn(name) ==
    IF name < NUM_SYSTEM_FNS THEN Some(SYSTEM_FNS[name + 1]) ELSE None
get_standard_name(i) ==
    IF i < SYSTEM_OPERATORS_END THEN Some(i) ELSE None

\* Value::Function(Function{name, sys_fn})
FunctionV(name, f) ==
    [tag |-> "Function", name |-> name,
     sys_fn |-> [arity |-> f.arity, callback |-> f.callback]]

\* MasterScope::contains
MasterScope_contains(name) == is_standard_value(name)

\* MasterScope::can_define with the system operators left out.
MasterScope_can_define_ValuesOnly(name) == ~is_standard_value(name)

\* MasterScope::can_define
MasterScope_can_define(name) ==
    ~(is_standard_value(name) \/ is_system_operator(name))

\* MasterScope::get_bool
MasterScope_get_bool(name) ==
    CASE name = TRUE_NAME  -> Some(TRUE)
      [] name = FALSE_NAME -> Some(FALSE)
      [] OTHER             -> None

\* MasterScope::get_function
MasterScope_get_function(name) ==
    IF get_system_fn(name).some
    THEN Some(FunctionV(name, get_system_fn(name).doc))
    ELSE None

\* MasterScope::get pairing every function with the first entry of the table.
MasterScope_get_FirstEntry(name) ==
    IF get_system_fn(name).some
    THEN Some(FunctionV(name, SYSTEM_FNS[1]))
    ELSE IF MasterScope_get_bool(name).some
    THEN Some(BoolV(MasterScope_get_bool(name).doc))
    ELSE None

\* MasterScope::get
MasterScope_get(name) ==
    IF MasterScope_get_function(name).some
    THEN MasterScope_get_function(name)
    ELSE IF MasterScope_get_bool(name).some
    THEN Some(BoolV(MasterScope_get_bool(name).doc))
    ELSE None

MasterRet(o, n, r) == [op |-> o, name |-> n, r |-> r]

MasterIdle == UNCHANGED <<pvars, svars, fvars, lvars>>

\* MasterScope::contains, can_define and get of one name.
MasterQuery(name) ==
    /\ mret.r.status # "Panic"
    /\ mret' = MasterRet("query", name,
                 Ok([contains |-> MasterScope_contains(name),
                     can_define |-> MasterScope_can_define(name),
                     get |-> MasterScope_get(name)]))
    /\ UNCHANGED mvalues
    /\ MasterIdle

\* MasterScope::get_values, MasterValues::new
MasterGetValues ==
    /\ mret.r.status # "Panic"
    /\ mvalues' = 0
    /\ mret' = MasterRet("get_values", 0, Ok(0))
    /\ MasterIdle

\* One call of <MasterValues as Iterator>::next on an iterator at `n`:
\* the new position and what is returned.
MasterValues_next(n) ==
    IF n >= NUM_STANDARD_VALUES THEN [next |-> n, r |-> Ok(None)]
    ELSE IF ~get_standard_name(n).some THEN [next |-> n, r |-> Panic]
    ELSE IF ~MasterScope_get(get_standard_name(n).doc).some
    THEN [next |-> n, r |-> Panic]
    ELSE [next |-> n + 1,
          r |-> Ok(Some(<<get_standard_name(n).doc,
                          MasterScope_get(get_standard_name(n).doc).doc>>))]

\* <MasterValues as ExactSizeIterator>::len
MasterValues_len(n) ==
    IF n >= NUM_STANDARD_VALUES THEN 0 ELSE NUM_STANDARD_VALUES - n

MasterValuesNext ==
    /\ mret.r.status # "Panic"
    /\ mvalues' = MasterValues_next(mvalues).next
    /\ mret' = MasterRet("values_next", mvalues, MasterValues_next(mvalues).r)
    /\ MasterIdle

(***************************************************************************)
(* The numeric kernel.  An Integer is an integer; a Ratio is a pair n/d in *)
(* lowest terms with d > 0; a Float is modelled by the rational n/d it     *)
(* holds, with d = 0 for the values that are not finite: 1/0 and -1/0 are   *)
(* the infinities and 0/0 is NaN.                                          *)
(***************************************************************************)
Abs(x) == IF x < 0 THEN -x ELSE x
Sgn(x) == IF x < 0 THEN -1 ELSE IF x = 0 THEN 0 ELSE 1

RECURSIVE GCD(_, _)
GCD(a, b) == IF b = 0 THEN a ELSE GCD(b, a % b)

\* Integer: `/` and `%` round toward zero, as for the machine integers.
TruncDiv(a, b) == Sgn(a) * Sgn(b) * (Abs(a) \div Abs(b))
TruncRem(a, b) == a - b * TruncDiv(a, b)

RECURSIVE IntPow(_, _)
IntPow(a, n) == IF n = 0 THEN 1 ELSE a * IntPow(a, n - 1)

\* A rational in lowest terms with a positive denominator (d # 0).
Q(n, d) ==
    LET g == GCD(Abs(n), Abs(d))
    IN  [n |-> Sgn(d) * (n \div g), d |-> Abs(d) \div g]
QAdd(a, b) == Q(a.n * b.d + b.n * a.d, a.d * b.d)
QSub(a, b) == Q(a.n * b.d - b.n * a.d, a.d * b.d)
QMul(a, b) == Q(a.n * b.n, a.d * b.d)
QDiv(a, b) == Q(a.n * b.d, a.d * b.n)
QTrunc(a) == TruncDiv(a.n, a.d)
QFloor(a) == IF a.n < 0 /\ TruncRem(a.n, a.d) # 0 THEN QTrunc(a) - 1 ELSE QTrunc(a)
QRem(a, b) == QSub(a, QMul(b, Q(QTrunc(QDiv(a, b)), 1)))
QLess(a, b) == a.n * b.d < b.n * a.d

IntegerV(i) == [tag |-> "Integer", i |-> i]
RatioV(n, d) == [tag |-> "Ratio", n |-> n, d |-> d]
FloatV(n, d) == [tag |-> "Float", n |-> n, d |-> d]
CharV(c) == [tag |-> "Char", c |-> c]
StringV(s) == [tag |-> "String", s |-> s]

\* Ratio::new: lowest terms; a zero denominator aborts.
Ratio_new(n, d) == IF d = 0 THEN Panic ELSE Ok(RatioV(Q(n, d).n, Q(n, d).d))
Ratio_from_integer(i) == RatioV(i, 1)
RatioQ(q) == RatioV(q.n, q.d)

\* f64
NaN == FloatV(0, 0)
Infinity == FloatV(1, 0)
NegInfinity == FloatV(-1, 0)
\* A finite float that is not one of the rationals the model holds.
FloatOther == FloatV(0, -1)
FloatQ(q) == FloatV(q.n, q.d)
is_nan(f) == f.d = 0 /\ f.n = 0
is_infinite(f) == f.d = 0 /\ f.n # 0
is_finite(f) == f.d # 0
FloatSign(f) == Sgn(f.n)

FloatAdd(a, b) ==
    IF is_nan(a) \/ is_nan(b) THEN NaN
    ELSE IF is_infinite(a) /\ is_infinite(b) THEN (IF a = b THEN a ELSE NaN)
    ELSE IF is_infinite(a) THEN a
    ELSE IF is_infinite(b) THEN b
    ELSE FloatQ(QAdd(a, b))
FloatNeg(a) == FloatV(-a.n, a.d)
FloatSub(a, b) == FloatAdd(a, FloatNeg(b))
FloatMul(a, b) ==
    IF is_nan(a) \/ is_nan(b) THEN NaN
    ELSE IF is_infinite(a) \/ is_infinite(b)
    THEN (IF a.n = 0 \/ b.n = 0 THEN NaN ELSE FloatV(Sgn(a.n) * Sgn(b.n), 0))
    ELSE FloatQ(QMul(a, b))
FloatDiv(a, b) ==
    IF is_nan(a) \/ is_nan(b) THEN NaN
    ELSE IF is_infinite(a) THEN (IF is_infinite(b) THEN NaN
                                 ELSE FloatV(a.n * (IF b.n < 0 THEN -1 ELSE 1), 0))
    ELSE IF is_infinite(b) THEN FloatV(0, 1)
    ELSE IF b.n = 0 THEN (IF a.n = 0 THEN NaN ELSE FloatV(Sgn(a.n), 0))
    ELSE FloatQ(QDiv(a, b))
FloatRem(a, b) ==
    IF is_nan(a) \/ is_nan(b) \/ is_infinite(a) THEN NaN
    ELSE IF is_infinite(b) THEN a
    ELSE IF b.n = 0 THEN NaN
    ELSE FloatQ(QRem(a, b))
\* powf: exact for the whole exponents, some other float otherwise.
FloatPow(a, b) ==
    IF is_nan(a) \/ is_nan(b) THEN (IF is_finite(b) /\ b.n = 0 THEN FloatV(1, 1) ELSE NaN)
    ELSE IF ~is_finite(a) \/ ~is_finite(b) \/ b.d # 1 THEN FloatOther
    ELSE IF b.n >= 0 THEN FloatV(IntPow(a.n, b.n), IntPow(a.d, b.n))
    ELSE IF a.n = 0 THEN Infinity
    ELSE FloatQ(Q(IntPow(a.d, -b.n), IntPow(a.n, -b.n)))

\* Integer::to_f64 and Ratio::to_f64; None only beyond the range of f64,
\* which no number of the model reaches.
Integer_to_f64(i) == Some(FloatV(i, 1))
Ratio_to_f64(r) == Some(FloatV(r.n, r.d))
\* Integer::to_u32 / to_usize: None for a negative number, and beyond the
\* range of the type, which no number of the model reaches.
Integer_to_u32(i) == IF i >= 0 THEN Some(i) ELSE None
Integer_to_usize(i) == IF i >= 0 THEN Some(i) ELSE None

(***************************************************************************)
(* Value operations (value.rs) and errors (exec.rs).                       *)
(***************************************************************************)
NumberTags == {"Float", "Integer", "Ratio"}
MetaTags == {"Quote", "Quasiquote", "Comma", "CommaAt"}

\* Value::type_name
type_name(v) ==
    CASE v.tag = "Unit"      -> "unit"
      [] v.tag = "Unbound"   -> "<unbound>"
      [] v.tag = "Bool"      -> "bool"
      [] v.tag = "Float"     -> "float"
      [] v.tag = "Integer"   -> "integer"
      [] v.tag = "Ratio"     -> "ratio"
      [] v.tag = "Struct"    -> "struct"
      [] v.tag = "StructDef" -> "struct-def"
      [] v.tag = "Name"      -> "name"
      [] v.tag = "Keyword"   -> "keyword"
      [] v.tag = "Char"      -> "char"
      [] v.tag = "String"    -> "string"
      [] v.tag = "List"      -> "list"
      [] v.tag = "Function"  -> "function"
      [] v.tag = "Lambda"    -> "lambda"
      [] v.tag = "Foreign"   -> "foreign"
      [] v.tag \in MetaTags  -> "object"

\* ExecError
ExecError(kind) == [kind |-> kind]
ExecError_expected(ty, v) == [kind |-> "TypeError", expected |-> ty, found |-> type_name(v)]
TypeMismatch(a, b) == [kind |-> "TypeMismatch", lhs |-> type_name(a), rhs |-> type_name(b)]
OutOfBounds(i) == [kind |-> "OutOfBounds", index |-> i]

\* The rational a number holds; a Float must be finite.
NumQ(v) == IF v.tag = "Integer" THEN [n |-> v.i, d |-> 1] ELSE [n |-> v.n, d |-> v.d]

\* A number as the float it converts to.
AsFloat(v) == IF v.tag = "Float" THEN v ELSE FloatV(NumQ(v).n, NumQ(v).d)

CharCode(c) == CASE c = "a" -> 1 [] c = "b" -> 2 [] c = "c" -> 3 [] OTHER -> 4

Ordering(less, equal) == IF less THEN "Less" ELSE IF equal THEN "Equal" ELSE "Greater"

\* The names the values of the model hold, in the order of their handles.
InternedNames ==
    <<"number", "list", "unit", "bool", "float", "integer", "ratio", "struct",
      "struct-def", "name", "keyword", "char", "string", "function", "lambda",
      "object", "foo", "x", "y">>
NameHandle(n) == CHOOSE i \in 1..Len(InternedNames) : InternedNames[i] = n

RECURSIVE StrCmp(_, _)
StrCmp(a, b) ==
    IF a = <<>> \/ b = <<>> THEN Ordering(a = <<>> /\ b # <<>>, a = b)
    ELSE IF Head(a) = Head(b) THEN StrCmp(Tail(a), Tail(b))
    ELSE Ordering(CharCode(Head(a)) < CharCode(Head(b)), FALSE)

RECURSIVE compare(_, _)
RECURSIVE ListCmp(_, _)
\* Value::compare: an ordering within a type, the three kinds of number
\* taken together; TypeMismatch across types; NaN cannot be ordered.
compare(a, b) ==
    IF a.tag \in NumberTags /\ b.tag \in NumberTags
    THEN IF a.tag = "Float" \/ b.tag = "Float"
         THEN LET x == AsFloat(a)
                  y == AsFloat(b)
              IN  IF is_nan(x) \/ is_nan(y)
                  THEN Err(ExecError("CompareNaN"))
                  ELSE IF x = y THEN Ok("Equal")
                  ELSE IF is_infinite(x) THEN Ok(Ordering(x.n < 0, FALSE))
                  ELSE IF is_infinite(y) THEN Ok(Ordering(y.n > 0, FALSE))
                  ELSE Ok(Ordering(QLess(x, y), FALSE))
         ELSE Ok(Ordering(QLess(NumQ(a), NumQ(b)), NumQ(a) = NumQ(b)))
    ELSE IF a.tag # b.tag THEN Err(TypeMismatch(a, b))
    ELSE CASE a.tag = "Unit"   -> Ok("Equal")
           [] a.tag = "Bool"   -> Ok(Ordering(~a.b /\ b.b, a.b = b.b))
           [] a.tag = "Char"   -> Ok(StrCmp(<<a.c>>, <<b.c>>))
           [] a.tag = "String" -> Ok(StrCmp(a.s, b.s))
           [] a.tag \in {"Name", "Keyword"} ->
                  Ok(Ordering(NameHandle(a.name) < NameHandle(b.name),
                              a.name = b.name))
           [] a.tag = "List"   -> ListCmp(a.items, b.items)
           [] OTHER            -> Ok(Ordering(a.id < b.id, a.id = b.id))

ListCmp(a, b) ==
    IF a = <<>> \/ b = <<>> THEN Ok(Ordering(a = <<>> /\ b # <<>>, a = b))
    ELSE LET c == compare(Head(a), Head(b))
         IN  IF c.status # "Ok" \/ c.val # "Equal" THEN c
             ELSE ListCmp(Tail(a), Tail(b))

RECURSIVE is_equal(_, _)
RECURSIVE ListEq(_, _)
\* Value::is_equal: the numbers compare by value, NaN equal to nothing;
\* values of one variant structurally; TypeMismatch across variants.
is_equal(a, b) ==
    IF a.tag \in NumberTags /\ b.tag \in NumberTags
    THEN IF a.tag = "Float" \/ b.tag = "Float"
         THEN Ok(~is_nan(AsFloat(a)) /\ AsFloat(a) = AsFloat(b))
         ELSE Ok(NumQ(a) = NumQ(b))
    ELSE IF a.tag # b.tag THEN Err(TypeMismatch(a, b))
    ELSE IF a.tag = "List" THEN ListEq(a.items, b.items)
    ELSE Ok(a = b)

ListEq(a, b) ==
    IF Len(a) # Len(b) THEN Ok(FALSE)
    ELSE IF a = <<>> THEN Ok(TRUE)
    ELSE LET e == is_equal(Head(a), Head(b))
         IN  IF e.status # "Ok" \/ ~e.val THEN e
             ELSE ListEq(Tail(a), Tail(b))

\* Integer and Ratio `/` and `%`: a zero divisor aborts.
Integer_div(a, b) == IF b = 0 THEN Panic ELSE Ok(IntegerV(TruncDiv(a, b)))
Integer_rem(a, b) == IF b = 0 THEN Panic ELSE Ok(IntegerV(TruncRem(a, b)))
Ratio_div(a, b) == IF b.n = 0 THEN Panic ELSE Ok(RatioQ(QDiv(a, b)))
Ratio_rem(a, b) == IF b.n = 0 THEN Panic ELSE Ok(RatioQ(QRem(a, b)))

(***************************************************************************)
(* The system functions (function.rs).  A callback is an operator on the   *)
(* argument slice, a sequence of values, giving Ok(value), Err(error) or   *)
(* Panic where the code would abort: an index outside the slice, an        *)
(* unwrap of None, unreachable!().                                         *)
(***************************************************************************)
IsNumber(v) == v.tag \in NumberTags

expect_integer(v) ==
    IF v.tag = "Integer" THEN Ok(0) ELSE Err(ExecError_expected("integer", v))

expect_number(v) ==
    IF IsNumber(v) THEN Ok(0) ELSE Err(ExecError_expected("number", v))

\* test_zero on an Integer (is_zero) or a Ratio (numerator is zero).
test_zero(t) ==
    IF NumQ(t).n = 0 THEN Err(ExecError("DivideByZero")) ELSE Ok(0)

coerce_numbers(lhs, rhs) ==
    CASE lhs.tag = rhs.tag -> Ok(<<lhs, rhs>>)
      [] lhs.tag = "Float" /\ rhs.tag = "Integer" ->
             IF Integer_to_f64(rhs.i).some
             THEN Ok(<<lhs, Integer_to_f64(rhs.i).doc>>)
             ELSE Err(ExecError("Overflow"))
      [] lhs.tag = "Integer" /\ rhs.tag = "Float" ->
             IF Integer_to_f64(lhs.i).some
             THEN Ok(<<Integer_to_f64(lhs.i).doc, rhs>>)
             ELSE Err(ExecError("Overflow"))
      [] lhs.tag = "Ratio" /\ rhs.tag = "Integer" ->
             Ok(<<lhs, Ratio_from_integer(rhs.i)>>)
      [] lhs.tag = "Integer" /\ rhs.tag = "Ratio" ->
             Ok(<<Ratio_from_integer(lhs.i), rhs>>)
      [] lhs.tag = "Float" /\ rhs.tag = "Ratio" ->
             IF Ratio_to_f64(rhs).some
             THEN Ok(<<lhs, Ratio_to_f64(rhs).doc>>)
             ELSE Err(ExecError("Overflow"))
      [] lhs.tag = "Ratio" /\ rhs.tag = "Float" ->
             IF Ratio_to_f64(lhs).some
             THEN Ok(<<Ratio_to_f64(lhs).doc, rhs>>)
             ELSE Err(ExecError("Overflow"))
      [] OTHER -> Ok(<<lhs, rhs>>)

add_number(lhs, rhs) ==
    LET c == coerce_numbers(lhs, rhs)
    IN  IF c.status # "Ok" THEN c
        ELSE LET a == c.val[1]
                 b == c.val[2]
             IN  CASE a.tag = "Float" /\ b.tag = "Float"     -> Ok(FloatAdd(a, b))
                   [] a.tag = "Integer" /\ b.tag = "Integer" -> Ok(IntegerV(a.i + b.i))
                   [] a.tag = "Ratio" /\ b.tag = "Ratio"     -> Ok(RatioQ(QAdd(a, b)))
                   [] OTHER -> Err(TypeMismatch(a, b))

neg_number(v) ==
    CASE v.tag = "Float"   -> Ok(FloatNeg(v))
      [] v.tag = "Integer" -> Ok(IntegerV(-v.i))
      [] v.tag = "Ratio"   -> Ok(RatioV(-v.n, v.d))
      [] OTHER -> Err(ExecError_expected("number", v))

sub_number(lhs, rhs) ==
    LET c == coerce_numbers(lhs, rhs)
    IN  IF c.status # "Ok" THEN c
        ELSE LET a == c.val[1]
                 b == c.val[2]
             IN  CASE a.tag = "Float" /\ b.tag = "Float"     -> Ok(FloatSub(a, b))
                   [] a.tag = "Integer" /\ b.tag = "Integer" -> Ok(IntegerV(a.i - b.i))
                   [] a.tag = "Ratio" /\ b.tag = "Ratio"     -> Ok(RatioQ(QSub(a, b)))
                   [] OTHER -> Err(TypeMismatch(a, b))

mul_number(lhs, rhs) ==
    LET c == coerce_numbers(lhs, rhs)
    IN  IF c.status # "Ok" THEN c
        ELSE LET a == c.val[1]
                 b == c.val[2]
             IN  CASE a.tag = "Float" /\ b.tag = "Float"     -> Ok(FloatMul(a, b))
                   [] a.tag = "Integer" /\ b.tag = "Integer" -> Ok(IntegerV(a.i * b.i))
                   [] a.tag = "Ratio" /\ b.tag = "Ratio"     -> Ok(RatioQ(QMul(a, b)))
                   [] OTHER -> Err(TypeMismatch(a, b))

\* div_number giving the truncated Integer quotient for every pair of
\* integers.
div_number_Truncating(lhs, rhs) ==
    LET c == coerce_numbers(lhs, rhs)
    IN  IF c.status # "Ok" THEN c
        ELSE LET a == c.val[1]
                 b == c.val[2]
             IN  CASE a.tag = "Float" /\ b.tag = "Float" -> Ok(FloatDiv(a, b))
                   [] a.tag = "Integer" /\ b.tag = "Integer" ->
                          IF test_zero(b).status # "Ok" THEN test_zero(b)
                          ELSE Integer_div(a.i, b.i)
                   [] a.tag = "Ratio" /\ b.tag = "Ratio" ->
                          IF test_zero(b).status # "Ok" THEN test_zero(b)
                          ELSE Ratio_div(a, b)
                   [] OTHER -> Err(TypeMismatch(a, b))

div_number(lhs, rhs) ==
    LET c == coerce_numbers(lhs, rhs)
    IN  IF c.status # "Ok" THEN c
        ELSE LET a == c.val[1]
                 b == c.val[2]
             IN  CASE a.tag = "Float" /\ b.tag = "Float" -> Ok(FloatDiv(a, b))
                   [] a.tag = "Integer" /\ b.tag = "Integer" ->
                          IF test_zero(b).status # "Ok" THEN test_zero(b)
                          ELSE IF TruncRem(a.i, b.i) = 0
                          THEN Integer_div(a.i, b.i)
                          ELSE Ratio_new(a.i, b.i)
                   [] a.tag = "Ratio" /\ b.tag = "Ratio" ->
                          IF test_zero(b).status # "Ok" THEN test_zero(b)
                          ELSE Ratio_div(a, b)
                   [] OTHER -> Err(TypeMismatch(a, b))

floor_div_number_step(lhs, rhs) ==
    LET c == coerce_numbers(lhs, rhs)
    IN  IF c.status # "Ok" THEN c
        ELSE LET a == c.val[1]
                 b == c.val[2]
             IN  IF a.tag = "Integer" /\ b.tag = "Integer"
                 THEN IF test_zero(b).status # "Ok" THEN test_zero(b)
                      ELSE Integer_div(a.i, b.i)
                 ELSE div_number(a, b)

rem_number(lhs, rhs) ==
    LET c == coerce_numbers(lhs, rhs)
    IN  IF c.status # "Ok" THEN c
        ELSE LET a == c.val[1]
                 b == c.val[2]
             IN  CASE a.tag = "Float" /\ b.tag = "Float" -> Ok(FloatRem(a, b))
                   [] a.tag = "Integer" /\ b.tag = "Integer" ->
                          IF test_zero(b).status # "Ok" THEN test_zero(b)
                          ELSE Integer_rem(a.i, b.i)
                   [] a.tag = "Ratio" /\ b.tag = "Ratio" ->
                          IF test_zero(b).status # "Ok" THEN test_zero(b)
                          ELSE Ratio_rem(a, b)
                   [] OTHER -> Err(TypeMismatch(a, b))

\* floor_number
floor_number(v) ==
    CASE v.tag = "Float" ->
             Ok(IF is_finite(v) THEN FloatV(QFloor(v), 1) ELSE v)
      [] v.tag = "Integer" -> Ok(v)
      [] v.tag = "Ratio"   -> Ok(RatioV(QFloor(v), 1))
      [] OTHER -> Err(ExecError_expected("number", v))

\* `v = try!(step(v, arg))` of the folds of + - * / //
NumberStep(step, lhs, rhs) ==
    CASE step = "add"       -> add_number(lhs, rhs)
      [] step = "sub"       -> sub_number(lhs, rhs)
      [] step = "mul"       -> mul_number(lhs, rhs)
      [] step = "div"       -> div_number(lhs, rhs)
      [] step = "floor_div" -> floor_div_number_step(lhs, rhs)

RECURSIVE NumberFold(_, _, _, _)
\* `for arg in &args[1..] { try!(expect_number(arg)); v = try!(step(v, arg)); }`
\* from the argument at position i (counted from 1) on.
NumberFold(step, v, args, i) ==
    IF i > Len(args) THEN Ok(v)
    ELSE IF expect_number(args[i]).status # "Ok" THEN expect_number(args[i])
    ELSE LET r == NumberStep(step, v, args[i])
         IN  IF r.status # "Ok" THEN r ELSE NumberFold(step, r.val, args, i + 1)

\* `let mut v = args[0].take(); try!(expect_number(&v)); for arg in ...`
NumberFoldAll(step, args) ==
    IF Len(args) < 1 THEN Panic
    ELSE IF expect_number(args[1]).status # "Ok" THEN expect_number(args[1])
    ELSE NumberFold(step, args[1], args, 2)

fn_add(args) ==
    IF args = <<>> THEN Ok(IntegerV(0)) ELSE NumberFoldAll("add", args)

fn_sub(args) ==
    IF Len(args) < 1 THEN Panic
    ELSE IF Len(args) = 1 THEN neg_number(args[1])
    ELSE NumberFoldAll("sub", args)

fn_mul(args) ==
    IF args = <<>> THEN Ok(IntegerV(1)) ELSE NumberFoldAll("mul", args)

pow_ratio_integer(lhs, rhs) ==
    IF rhs < 0
    THEN IF ~Ratio_to_f64(lhs).some \/ ~Integer_to_f64(rhs).some
         THEN Err(ExecError("Overflow"))
         ELSE Ok(FloatPow(Ratio_to_f64(lhs).doc, Integer_to_f64(rhs).doc))
    ELSE IF ~Integer_to_usize(rhs).some THEN Err(ExecError("Overflow"))
    ELSE Ratio_new(IntPow(lhs.n, rhs), IntPow(lhs.d, rhs))

pow_number(lhs, rhs) ==
    IF lhs.tag = "Ratio" /\ rhs.tag = "Integer" THEN pow_ratio_integer(lhs, rhs.i)
    ELSE IF lhs.tag = "Ratio" /\ rhs.tag = "Ratio" /\ rhs.d = 1
    THEN pow_ratio_integer(lhs, rhs.n)
    ELSE
    LET c == coerce_numbers(lhs, rhs)
    IN  IF c.status # "Ok" THEN c
        ELSE LET a == c.val[1]
                 b == c.val[2]
             IN  CASE a.tag = "Float" /\ b.tag = "Float" -> Ok(FloatPow(a, b))
                   [] a.tag = "Integer" /\ b.tag = "Integer" ->
                          IF b.i < 0
                          THEN IF ~Integer_to_f64(a.i).some \/ ~Integer_to_f64(b.i).some
                               THEN Err(ExecError("Overflow"))
                               ELSE Ok(FloatPow(Integer_to_f64(a.i).doc,
                                                Integer_to_f64(b.i).doc))
                          ELSE IF ~Integer_to_usize(b.i).some
                          THEN Err(ExecError("Overflow"))
                          ELSE Ok(IntegerV(IntPow(a.i, b.i)))
                   [] a.tag = "Ratio" /\ b.tag = "Ratio" ->
                          IF ~Ratio_to_f64(a).some \/ ~Ratio_to_f64(b).some
                          THEN Err(ExecError("Overflow"))
                          ELSE Ok(FloatPow(Ratio_to_f64(a).doc, Ratio_to_f64(b).doc))
                   [] OTHER -> Err(TypeMismatch(a, b))

fn_pow(args) ==
    IF Len(args) < 2 THEN Panic
    ELSE IF expect_number(args[1]).status # "Ok" THEN expect_number(args[1])
    ELSE IF expect_number(args[2]).status # "Ok" THEN expect_number(args[2])
    ELSE pow_number(args[1], args[2])

fn_div(args) == NumberFoldAll("div", args)

fn_floor_div(args) ==
    LET v == NumberFoldAll("floor_div", args)
    IN  IF v.status # "Ok" THEN v ELSE floor_number(v.val)

fn_rem(args) ==
    IF Len(args) < 1 THEN Panic
    ELSE IF expect_number(args[1]).status # "Ok" THEN expect_number(args[1])
    ELSE IF Len(args) < 2 THEN Panic
    ELSE IF expect_number(args[2]).status # "Ok" THEN expect_number(args[2])
    ELSE rem_number(args[1], args[2])

shl_integer(lhs, rhs) ==
    IF expect_integer(lhs).status # "Ok" THEN expect_integer(lhs)
    ELSE IF expect_integer(rhs).status # "Ok" THEN expect_integer(rhs)
    ELSE IF lhs.tag = "Integer" /\ rhs.tag = "Integer"
    THEN IF Integer_to_u32(rhs.i).some
         THEN Ok(IntegerV(lhs.i * IntPow(2, Integer_to_u32(rhs.i).doc)))
         ELSE Err(ExecError("Overflow"))
    ELSE Panic

fn_shl(args) == IF Len(args) < 2 THEN Panic ELSE shl_integer(args[1], args[2])

shr_integer(lhs, rhs) ==
    IF expect_integer(lhs).status # "Ok" THEN expect_integer(lhs)
    ELSE IF expect_integer(rhs).status # "Ok" THEN expect_integer(rhs)
    ELSE IF lhs.tag = "Integer" /\ rhs.tag = "Integer"
    THEN IF Integer_to_u32(rhs.i).some
         THEN Ok(IntegerV(QFloor([n |-> lhs.i,
                                  d |-> IntPow(2, Integer_to_u32(rhs.i).doc)])))
         ELSE Err(ExecError("Overflow"))
    ELSE Panic

fn_shr(args) == IF Len(args) < 2 THEN Panic ELSE shr_integer(args[1], args[2])

RECURSIVE EqLoop(_, _, _)
\* `for arg in &args[1..] { let eq = try!(v.is_equal(arg)); if !eq { r = false; break; } }`
EqLoop(v, args, i) ==
    IF i > Len(args) THEN Ok(BoolV(TRUE))
    ELSE LET eq == is_equal(v, args[i])
         IN  IF eq.status # "Ok" THEN eq
             ELSE IF ~eq.val THEN Ok(BoolV(FALSE))
             ELSE EqLoop(v, args, i + 1)

fn_eq(args) == IF Len(args) < 1 THEN Panic ELSE EqLoop(args[1], args, 2)

RECURSIVE NeInner(_, _, _)
\* `for rhs in &args[i + 1..]`: Ok(TRUE) when no rhs equals lhs.
NeInner(lhs, args, j) ==
    IF j > Len(args) THEN Ok(TRUE)
    ELSE LET eq == is_equal(lhs, args[j])
         IN  IF eq.status # "Ok" THEN eq
             ELSE IF eq.val THEN Ok(FALSE)
             ELSE NeInner(lhs, args, j + 1)

RECURSIVE NeOuter(_, _)
\* `'outer: for i in 0..n`, i counted from 1 here.
NeOuter(args, i) ==
    IF i > Len(args) - 1 THEN Ok(BoolV(TRUE))
    ELSE LET r == NeInner(args[i], args, i + 1)
         IN  IF r.status # "Ok" THEN r
             ELSE IF ~r.val THEN Ok(BoolV(FALSE))
             ELSE NeOuter(args, i + 1)

\* `/=` comparing only the adjacent arguments.
fn_ne_Adjacent(args) ==
    IF Len(args) < 1 THEN Panic
    ELSE IF \E i \in 1..(Len(args) - 1) : is_equal(args[i], args[i + 1]).status # "Ok"
    THEN NeOuter(args, 1)
    ELSE Ok(BoolV(\A i \in 1..(Len(args) - 1) : ~is_equal(args[i], args[i + 1]).val))

\* `let n = args.len() - 1;` underflows on an empty slice.
fn_ne(args) == IF Len(args) < 1 THEN Panic ELSE NeOuter(args, 1)

\* Whether the loop of `<`, `>`, `<=`, `>=` stops with false on ord.
CompareBreaks(rel, ord) ==
    CASE rel = "lt" -> ord # "Less"
      [] rel = "gt" -> ord # "Greater"
      [] rel = "le" -> ord = "Greater"
      [] rel = "ge" -> ord = "Less"

RECURSIVE CompareChain(_, _, _, _)
\* `for arg in &args[1..] { let ord = try!(v.compare(arg)); if <breaks> { r =
\*  false; break; } v = arg; }`
CompareChain(rel, v, args, i) ==
    IF i > Len(args) THEN Ok(BoolV(TRUE))
    ELSE LET ord == compare(v, args[i])
         IN  IF ord.status # "Ok" THEN ord
             ELSE IF CompareBreaks(rel, ord.val) THEN Ok(BoolV(FALSE))
             ELSE CompareChain(rel, args[i], args, i + 1)

fn_lt(args) == IF Len(args) < 1 THEN Panic ELSE CompareChain("lt", args[1], args, 2)
fn_gt(args) == IF Len(args) < 1 THEN Panic ELSE CompareChain("gt", args[1], args, 2)
fn_le(args) == IF Len(args) < 1 THEN Panic ELSE CompareChain("le", args[1], args, 2)
fn_ge(args) == IF Len(args) < 1 THEN Panic ELSE CompareChain("ge", args[1], args, 2)

RECURSIVE fn_zero_loop(_, _)
fn_zero_loop(args, i) ==
    IF i > Len(args) THEN Ok(BoolV(TRUE))
    ELSE IF ~IsNumber(args[i]) THEN Err(ExecError_expected("number", args[i]))
    ELSE IF NumQ(args[i]).n # 0 \/ (args[i].tag = "Float" /\ ~is_finite(args[i]))
    THEN Ok(BoolV(FALSE))
    ELSE fn_zero_loop(args, i + 1)

fn_zero(args) == fn_zero_loop(args, 1)

RECURSIVE ExtremumLoop(_, _, _, _)
\* `for arg in &mut args[1..] { if try!(v.compare(arg)) == <ord> { v = arg.take(); } }`
ExtremumLoop(replace, v, args, i) ==
    IF i > Len(args) THEN Ok(v)
    ELSE LET ord == compare(v, args[i])
         IN  IF ord.status # "Ok" THEN ord
             ELSE ExtremumLoop(replace, IF ord.val = replace THEN args[i] ELSE v,
                               args, i + 1)

fn_max(args) == IF Len(args) < 1 THEN Panic ELSE ExtremumLoop("Less", args[1], args, 2)
fn_min(args) == IF Len(args) < 1 THEN Panic ELSE ExtremumLoop("Greater", args[1], args, 2)

(***************************************************************************)
(* Strings are sequences of chars; their lengths and slice bounds count    *)
(* the bytes of the UTF-8 encoding.                                        *)
(***************************************************************************)
Utf8(c) ==
    CASE c = "a" -> <<97>>
      [] c = "b" -> <<98>>
      [] c = "~" -> <<126>>
      [] c = "\n" -> <<10>>
      [] OTHER -> <<195, 169>>

RECURSIVE as_bytes(_)
as_bytes(s) == IF s = <<>> THEN <<>> ELSE Utf8(Head(s)) \o as_bytes(Tail(s))

RECURSIVE from_utf8(_)
\* The chars of a byte sequence; a byte that is part of no whole char, as a
\* cut inside a char leaves it, reads as "?".
from_utf8(bs) ==
    IF bs = <<>> THEN <<>>
    ELSE IF Head(bs) >= 128 /\ (Head(bs) < 192 \/ Len(bs) < 2)
    THEN <<"?">> \o from_utf8(Tail(bs))
    ELSE IF Head(bs) = 97 THEN <<"a">> \o from_utf8(Tail(bs))
    ELSE IF Head(bs) = 98 THEN <<"b">> \o from_utf8(Tail(bs))
    ELSE IF Head(bs) = 126 THEN <<"~">> \o from_utf8(Tail(bs))
    ELSE IF Head(bs) = 10 THEN <<"\n">> \o from_utf8(Tail(bs))
    ELSE <<"e2">> \o from_utf8(Tail(Tail(bs)))

str_len(s) == Len(as_bytes(s))

\* is_char_boundary taking every index up to the length for a boundary.
is_char_boundary_AnyByte(s, n) == n <= str_len(s)

is_char_boundary(s, n) ==
    IF n = str_len(s) THEN TRUE
    ELSE IF n < str_len(s)
    THEN as_bytes(s)[n + 1] < 128 \/ as_bytes(s)[n + 1] >= 192
    ELSE FALSE

\* `s[begin..end]`: aborts unless begin <= end <= len on char boundaries.
str_slice(s, begin, end) ==
    IF begin > end \/ end > str_len(s)
       \/ ~is_char_boundary(s, begin) \/ ~is_char_boundary(s, end)
    THEN Panic
    ELSE Ok(StringV(from_utf8(SubSeq(as_bytes(s), begin + 1, end))))

\* RcVec::slice, `li[a..b]`: aborts unless a <= b <= len.
vec_slice(li, begin, end) ==
    IF begin > end \/ end > Len(li) THEN Panic
    ELSE Ok(VecIntoValue(SubSeq(li, begin + 1, end)))

StructDefV(id, name, fields) ==
    [tag |-> "StructDef", id |-> id, name |-> name, fields |-> fields]
StructV(id, def, fields) ==
    [tag |-> "Struct", id |-> id, def |-> def, fields |-> fields]
LambdaV(id) == [tag |-> "Lambda", id |-> id]

\* NameMap of (name, value) pairs kept as a sequence.
NameMap_contains_key(m, k) == \E i \in 1..Len(m) : m[i][1] = k
NameMap_get(m, k) == m[CHOOSE i \in 1..Len(m) : m[i][1] = k][2]
NameMap_set(m, k, v) ==
    IF NameMap_contains_key(m, k)
    THEN [i \in 1..Len(m) |-> IF m[i][1] = k THEN <<k, v>> ELSE m[i]]
    ELSE Append(m, <<k, v>>)

get_keyword(v) ==
    IF v.tag = "Keyword" THEN Ok(v.name) ELSE Err(ExecError_expected("keyword", v))

get_name(v) ==
    IF v.tag = "Name" THEN Ok(v.name) ELSE Err(ExecError_expected("name", v))

get_string(v) ==
    IF v.tag = "String" THEN Ok(v.s) ELSE Err(ExecError_expected("string", v))

get_struct(v) ==
    IF v.tag = "Struct" THEN Ok(v) ELSE Err(ExecError_expected("struct", v))

get_struct_def(v) ==
    IF v.tag = "StructDef" THEN Ok(v) ELSE Err(ExecError_expected("struct-def", v))

\* usize::from_value_ref
usize_from_value_ref(v) ==
    IF v.tag # "Integer" THEN Err(ExecError_expected("integer", v))
    ELSE IF Integer_to_usize(v.i).some THEN Ok(Integer_to_usize(v.i).doc)
    ELSE Err(ExecError("Overflow"))

\* The standard name of the type of v.
type_of(v) ==
    CASE v.tag = "Unit"      -> "unit"
      [] v.tag = "Unbound"   -> "<unbound>"
      [] v.tag = "Bool"      -> "bool"
      [] v.tag = "Float"     -> "float"
      [] v.tag = "Integer"   -> "integer"
      [] v.tag = "Ratio"     -> "ratio"
      [] v.tag = "Struct"    -> "struct"
      [] v.tag = "StructDef" -> "struct-def"
      [] v.tag = "Name"      -> "name"
      [] v.tag = "Keyword"   -> "keyword"
      [] v.tag = "Char"      -> "char"
      [] v.tag = "String"    -> "string"
      [] v.tag = "List"      -> "list"
      [] v.tag = "Function"  -> "function"
      [] v.tag = "Lambda"    -> "lambda"
      [] v.tag \in MetaTags  -> "object"
      [] v.tag = "Foreign"   -> v.type_name

\* value_is taking every value for a number.
value_is_AnyNumber(a, ty) ==
    CASE ty = "number" -> TRUE
      [] a.tag \in {"Unit", "List"} /\ ty = "list" -> TRUE
      [] a.tag = "Foreign" -> a.type_name = ty
      [] OTHER -> type_of(a) = ty

value_is(a, ty) ==
    CASE a.tag \in NumberTags /\ ty = "number" -> TRUE
      [] a.tag \in {"Unit", "List"} /\ ty = "list" -> TRUE
      [] a.tag = "Foreign" -> a.type_name = ty
      [] OTHER -> type_of(a) = ty

fn_xor(args) ==
    IF Len(args) < 2 THEN Panic
    ELSE IF args[1].tag = "Bool" /\ args[2].tag = "Bool"
    THEN Ok(BoolV(args[1].b # args[2].b))
    ELSE IF args[1].tag = "Bool" THEN Err(ExecError_expected("bool", args[2]))
    ELSE Err(ExecError_expected("bool", args[1]))

fn_not(args) ==
    IF Len(args) < 1 THEN Panic
    ELSE IF args[1].tag = "Bool" THEN Ok(BoolV(~args[1].b))
    ELSE Err(ExecError_expected("bool", args[1]))

fn_id(args) == IF Len(args) < 1 THEN Panic ELSE Ok(args[1])

fn_is(args) ==
    IF Len(args) < 1 THEN Panic
    ELSE IF get_name(args[1]).status # "Ok" THEN get_name(args[1])
    ELSE IF Len(args) < 2 THEN Panic
    ELSE Ok(BoolV(value_is(args[2], get_name(args[1]).val)))

fn_is_instance(args) ==
    IF Len(args) < 1 THEN Panic
    ELSE IF get_struct_def(args[1]).status # "Ok" THEN get_struct_def(args[1])
    ELSE IF Len(args) < 2 THEN Panic
    ELSE IF get_struct(args[2]).status # "Ok" THEN get_struct(args[2])
    ELSE Ok(BoolV(args[1].id = args[2].def.id))

fn_null(args) == IF Len(args) < 1 THEN Panic ELSE Ok(BoolV(args[1].tag = "Unit"))

fn_type_of(args) == IF Len(args) < 1 THEN Panic ELSE Ok(NameV(type_of(args[1])))

fn_dot(args) ==
    IF Len(args) < 1 THEN Panic
    ELSE IF get_struct(args[1]).status # "Ok" THEN get_struct(args[1])
    ELSE IF Len(args) < 2 THEN Panic
    ELSE IF get_keyword(args[2]).status # "Ok" THEN get_keyword(args[2])
    ELSE IF NameMap_contains_key(args[1].fields, args[2].name)
    THEN Ok(NameMap_get(args[1].fields, args[2].name))
    ELSE Err([kind |-> "FieldError", struct_name |-> args[1].def.name,
              field |-> args[2].name])

FieldError(def, name) ==
    [kind |-> "FieldError", struct_name |-> def.name, field |-> name]
FieldTypeError(def, name, ty, value) ==
    [kind |-> "FieldTypeError", struct_name |-> def.name, field |-> name,
     expected |-> ty, found |-> type_name(value)]

RECURSIVE fn_dot_eq_loop(_, _, _)
\* `while let Some(name) = iter.next()` over args[1..], i the position of
\* the next keyword (counted from 1); s the struct being written.
\* It gives the struct as the loop left it and how the loop was left.
fn_dot_eq_loop(s, args, i) ==
    IF i > Len(args) THEN [s |-> s, r |-> Ok(Unit)]
    ELSE IF get_keyword(args[i]).status # "Ok"
    THEN [s |-> s, r |-> get_keyword(args[i])]
    ELSE IF i + 1 > Len(args)
    THEN [s |-> s, r |-> Err(ExecError("OddKeywordParams"))]
    ELSE LET name == args[i].name
             value == args[i + 1]
         IN  IF ~NameMap_contains_key(s.fields, name)
             THEN [s |-> s, r |-> Err(FieldError(s.def, name))]
             ELSE IF ~NameMap_contains_key(s.def.fields, name)
             THEN [s |-> s, r |-> Err(FieldError(s.def, name))]
             ELSE IF ~value_is(value, NameMap_get(s.def.fields, name))
             THEN [s |-> s,
                   r |-> Err(FieldTypeError(s.def, name,
                                     NameMap_get(s.def.fields, name), value))]
             ELSE fn_dot_eq_loop([s EXCEPT !.fields = NameMap_set(@, name, value)],
                                 args, i + 2)

fn_dot_eq(args) ==
    IF Len(args) < 1 THEN Panic
    ELSE IF args[1].tag # "Struct" THEN Err(ExecError_expected("struct", args[1]))
    ELSE LET l == fn_dot_eq_loop(args[1], args, 2)
         IN  IF l.r.status = "Ok" THEN Ok(l.s) ELSE l.r

RECURSIVE fn_new_loop(_, _, _, _)
\* `while let Some(fname) = iter.next()` of fn_new, fields the map built so
\* far.
fn_new_loop(def, fields, args, i) ==
    IF i > Len(args) THEN Ok(fields)
    ELSE IF get_keyword(args[i]).status # "Ok" THEN get_keyword(args[i])
    ELSE LET fname == args[i].name
         IN  IF NameMap_contains_key(fields, fname)
             THEN Err([kind |-> "DuplicateField", field |-> fname])
             ELSE IF i + 1 > Len(args) THEN Err(ExecError("OddKeywordParams"))
             ELSE IF ~NameMap_contains_key(def.fields, fname)
             THEN Err(FieldError(def, fname))
             ELSE IF ~value_is(args[i + 1], NameMap_get(def.fields, fname))
             THEN Err(FieldTypeError(def, fname, NameMap_get(def.fields, fname),
                                     args[i + 1]))
             ELSE fn_new_loop(def, Append(fields, <<fname, args[i + 1]>>),
                              args, i + 2)

\* The struct id of a struct made by `new`: a fresh allocation.
NewStructId == 0

\* fn_new whose last loop reports the last field of def that is missing.
fn_new_LastMissing(args) ==
    IF Len(args) < 1 THEN Panic
    ELSE IF get_struct_def(args[1]).status # "Ok" THEN get_struct_def(args[1])
    ELSE LET def == args[1]
             r == fn_new_loop(def, <<>>, args, 2)
         IN  IF r.status # "Ok" THEN r
             ELSE IF \E i \in 1..Len(def.fields) :
                        ~NameMap_contains_key(r.val, def.fields[i][1])
             THEN LET i == CHOOSE i \in 1..Len(def.fields) :
                             /\ ~NameMap_contains_key(r.val, def.fields[i][1])
                             /\ \A j \in (i + 1)..Len(def.fields) :
                                    NameMap_contains_key(r.val, def.fields[j][1])
                  IN  Err([kind |-> "MissingField", struct_name |-> def.name,
                           field |-> def.fields[i][1]])
             ELSE Ok(StructV(NewStructId, def, r.val))

fn_new(args) ==
    IF Len(args) < 1 THEN Panic
    ELSE IF get_struct_def(args[1]).status # "Ok" THEN get_struct_def(args[1])
    ELSE LET def == args[1]
             r == fn_new_loop(def, <<>>, args, 2)
         IN  IF r.status # "Ok" THEN r
             ELSE IF \E i \in 1..Len(def.fields) :
                        ~NameMap_contains_key(r.val, def.fields[i][1])
             THEN LET i == CHOOSE i \in 1..Len(def.fields) :
                             /\ ~NameMap_contains_key(r.val, def.fields[i][1])
                             /\ \A j \in 1..(i - 1) :
                                    NameMap_contains_key(r.val, def.fields[j][1])
                  IN  Err([kind |-> "MissingField", struct_name |-> def.name,
                           field |-> def.fields[i][1]])
             ELSE Ok(StructV(NewStructId, def, r.val))

\* The string formatter: the text of fmt when it holds no directive; a
\* directive fails.
format_string(fmt, args) ==
    IF \E i \in 1..Len(fmt) : fmt[i] = "~"
    THEN Err(ExecError("FormatError"))
    ELSE Ok(fmt)

fn_format(args) ==
    IF Len(args) < 1 THEN Panic
    ELSE IF get_string(args[1]).status # "Ok" THEN get_string(args[1])
    ELSE LET s == format_string(args[1].s, Tail(args))
         IN  IF s.status # "Ok" THEN s ELSE Ok(StringV(s.val))

\* SharedWrite: what the writer was asked to do, in order.  A write that
\* failed got through some part of its text.
Written(text, ok) == [ev |-> "write", text |-> text, ok |-> ok]
Flushed(ok) == [ev |-> "flush", text |-> <<>>, ok |-> ok]

\* How the writer fares during one call: it works, write_all fails after
\* `at` chars, or flush fails.
IoOk == [fails |-> "none", at |-> 0]
WriteFails(k) == [fails |-> "write", at |-> k]
FlushFails == [fails |-> "flush", at |-> 0]

IoError == [kind |-> "IoError"]

\* `try!(stdout.write_all(s.as_bytes())); try!(stdout.flush()); Ok(Unit)`
write_all_flush(s, out, io) ==
    IF io.fails = "write"
    THEN [r |-> Err(IoError),
          out |-> Append(out, Written(SubSeq(s, 1, IF io.at < Len(s) THEN io.at
                                                   ELSE Len(s)), FALSE))]
    ELSE IF io.fails = "flush"
    THEN [r |-> Err(IoError),
          out |-> out \o <<Written(s, TRUE), Flushed(FALSE)>>]
    ELSE [r |-> Ok(Unit), out |-> out \o <<Written(s, TRUE), Flushed(TRUE)>>]

\* println pushing the newline whatever the text ends with.
println_text_Always(s) == Append(s, "\n")

\* `if !s.ends_with('\n') { s.push('\n'); }`
println_text(s) ==
    IF s # <<>> /\ s[Len(s)] = "\n" THEN s ELSE Append(s, "\n")

\* fn_print on the writer out, the writer faring as io says.
fn_print_on(args, out, io) ==
    IF Len(args) < 1 THEN [r |-> Panic, out |-> out]
    ELSE IF get_string(args[1]).status # "Ok"
    THEN [r |-> get_string(args[1]), out |-> out]
    ELSE LET s == format_string(args[1].s, Tail(args))
         IN  IF s.status # "Ok" THEN [r |-> s, out |-> out]
             ELSE write_all_flush(s.val, out, io)

\* fn_println on the writer out, the writer faring as io says.
fn_println_on(args, out, io) ==
    IF Len(args) < 1 THEN [r |-> Panic, out |-> out]
    ELSE IF get_string(args[1]).status # "Ok"
    THEN [r |-> get_string(args[1]), out |-> out]
    ELSE LET s == format_string(args[1].s, Tail(args))
         IN  IF s.status # "Ok" THEN [r |-> s, out |-> out]
             ELSE write_all_flush(println_text(s.val), out, io)

\* What fn_print and fn_println return when the writer works.
fn_print(args) == fn_print_on(args, <<>>, IoOk).r

fn_println(args) == fn_println_on(args, <<>>, IoOk).r

fn_append(args) ==
    IF Len(args) < 1 THEN Panic
    ELSE IF args[1].tag = "Unit" THEN Ok(VecIntoValue(Tail(args)))
    ELSE IF args[1].tag = "List" THEN Ok(VecIntoValue(args[1].items \o Tail(args)))
    ELSE Err(ExecError_expected("list", args[1]))

fn_elt(args) ==
    IF Len(args) < 2 THEN Panic
    ELSE IF usize_from_value_ref(args[2]).status # "Ok"
    THEN usize_from_value_ref(args[2])
    ELSE LET idx == usize_from_value_ref(args[2]).val
         IN  IF args[1].tag = "List"
             THEN IF idx < Len(args[1].items) THEN Ok(args[1].items[idx + 1])
                  ELSE Err(OutOfBounds(idx))
             ELSE Err(ExecError_expected("list", args[1]))

RECURSIVE concat_list_loop(_, _, _)
concat_list_loop(v, args, i) ==
    IF i > Len(args) THEN Ok(VecIntoValue(v))
    ELSE IF args[i].tag = "Unit" THEN concat_list_loop(v, args, i + 1)
    ELSE IF args[i].tag = "List"
    THEN concat_list_loop(v \o args[i].items, args, i + 1)
    ELSE Err(ExecError_expected("list", args[i]))

concat_list(args) == concat_list_loop(<<>>, args, 1)

RECURSIVE concat_string_loop(_, _, _)
concat_string_loop(acc, args, i) ==
    IF i > Len(args) THEN Ok(StringV(acc))
    ELSE IF args[i].tag = "Char"
    THEN concat_string_loop(Append(acc, args[i].c), args, i + 1)
    ELSE IF args[i].tag = "String"
    THEN concat_string_loop(acc \o args[i].s, args, i + 1)
    ELSE Err(ExecError_expected("char or string", args[i]))

concat_string(args) == concat_string_loop(<<>>, args, 1)

fn_concat(args) ==
    IF Len(args) < 1 THEN Panic
    ELSE IF args[1].tag \in {"Unit", "List"} THEN concat_list(args)
    ELSE IF args[1].tag \in {"Char", "String"} THEN concat_string(args)
    ELSE Err(ExecError_expected("list or string", args[1]))

RECURSIVE join_list_loop(_, _, _, _)
\* `for arg in rest { v.extend(sep...); match arg.take() ... }`
join_list_loop(sep, v, args, i) ==
    IF i > Len(args) THEN Ok(VecIntoValue(v))
    ELSE IF args[i].tag = "Unit" THEN join_list_loop(sep, v \o sep, args, i + 1)
    ELSE IF args[i].tag = "List"
    THEN join_list_loop(sep, v \o sep \o args[i].items, args, i + 1)
    ELSE Err(ExecError_expected("list", args[i]))

join_list(sep, args) ==
    IF args = <<>> THEN Ok(VecIntoValue(<<>>))
    ELSE IF args[1].tag = "Unit" THEN join_list_loop(sep, <<>>, args, 2)
    ELSE IF args[1].tag = "List" THEN join_list_loop(sep, args[1].items, args, 2)
    ELSE Err(ExecError_expected("list", args[1]))

RECURSIVE join_string_loop(_, _, _, _)
join_string_loop(sep, acc, args, i) ==
    IF i > Len(args) THEN Ok(StringV(acc))
    ELSE IF args[i].tag = "Char"
    THEN join_string_loop(sep, Append(acc \o sep, args[i].c), args, i + 1)
    ELSE IF args[i].tag = "String"
    THEN join_string_loop(sep, acc \o sep \o args[i].s, args, i + 1)
    ELSE Err(ExecError_expected("char or string", args[i]))

join_string(sep, args) ==
    IF args = <<>> THEN Ok(StringV(<<>>))
    ELSE IF args[1].tag = "Char" THEN join_string_loop(sep, <<args[1].c>>, args, 2)
    ELSE IF args[1].tag = "String" THEN join_string_loop(sep, args[1].s, args, 2)
    ELSE Err(ExecError_expected("char or string", args[1]))

\* `args.split_first_mut().unwrap()` aborts on an empty slice.
fn_join(args) ==
    IF args = <<>> THEN Panic
    ELSE LET first == args[1]
             rest == Tail(args)
         IN  CASE first.tag = "Unit" -> concat_list(rest)
               [] first.tag = "List" -> join_list(first.items, rest)
               [] first.tag = "Char" -> join_string(<<first.c>>, rest)
               [] first.tag = "String" /\ first.s = <<>> -> concat_string(rest)
               [] first.tag = "String" /\ first.s # <<>> -> join_string(first.s, rest)
               [] OTHER -> Err(ExecError_expected("list or string", first))

fn_len(args) ==
    IF Len(args) < 1 THEN Panic
    ELSE CASE args[1].tag = "Unit"   -> Ok(IntegerV(0))
           [] args[1].tag = "List"   -> Ok(IntegerV(Len(args[1].items)))
           [] args[1].tag = "String" -> Ok(IntegerV(str_len(args[1].s)))
           [] OTHER -> Err(ExecError_expected("list", args[1]))

InvalidSlice(begin, end) == [kind |-> "InvalidSlice", begin |-> begin, end |-> end]
NotCharBoundary(n) == [kind |-> "NotCharBoundary", index |-> n]

fn_slice(args) ==
    IF Len(args) < 2 THEN Panic
    ELSE IF usize_from_value_ref(args[2]).status # "Ok"
    THEN usize_from_value_ref(args[2])
    ELSE IF Len(args) < 3 THEN Panic
    ELSE IF usize_from_value_ref(args[3]).status # "Ok"
    THEN usize_from_value_ref(args[3])
    ELSE LET begin == usize_from_value_ref(args[2]).val
             end == usize_from_value_ref(args[3]).val
         IN  IF end < begin THEN Err(InvalidSlice(begin, end))
             ELSE CASE args[1].tag = "Unit" ->
                           IF begin > 0 THEN Err(OutOfBounds(begin))
                           ELSE IF end > 0 THEN Err(OutOfBounds(end))
                           ELSE Ok(Unit)
                    [] args[1].tag = "List" ->
                           IF begin > Len(args[1].items) THEN Err(OutOfBounds(begin))
                           ELSE IF end > Len(args[1].items) THEN Err(OutOfBounds(end))
                           ELSE vec_slice(args[1].items, begin, end)
                    [] args[1].tag = "String" ->
                           IF begin > str_len(args[1].s) THEN Err(OutOfBounds(begin))
                           ELSE IF end > str_len(args[1].s) THEN Err(OutOfBounds(end))
                           ELSE IF ~is_char_boundary(args[1].s, begin)
                           THEN Err(NotCharBoundary(begin))
                           ELSE IF ~is_char_boundary(args[1].s, end)
                           THEN Err(NotCharBoundary(end))
                           ELSE str_slice(args[1].s, begin, end)
                    [] OTHER -> Err(ExecError_expected("list or string", args[1]))

\* `li[0]` aborts on an empty list.
fn_first(args) ==
    IF Len(args) < 1 THEN Panic
    ELSE IF args[1].tag = "List"
    THEN IF args[1].items = <<>> THEN Panic ELSE Ok(args[1].items[1])
    ELSE Err(ExecError_expected("list", args[1]))

fn_second(args) ==
    IF Len(args) < 1 THEN Panic
    ELSE IF args[1].tag = "List"
    THEN IF Len(args[1].items) > 1 THEN Ok(args[1].items[2])
         ELSE Err(OutOfBounds(1))
    ELSE Err(ExecError_expected("list", args[1]))

\* `li.last().cloned().unwrap()` aborts on an empty list.
fn_last(args) ==
    IF Len(args) < 1 THEN Panic
    ELSE IF args[1].tag = "List"
    THEN IF args[1].items = <<>> THEN Panic
         ELSE Ok(args[1].items[Len(args[1].items)])
    ELSE Err(ExecError_expected("list", args[1]))

\* `len - 1` underflows on an empty list.
fn_init(args) ==
    IF Len(args) < 1 THEN Panic
    ELSE IF args[1].tag = "List"
    THEN IF args[1].items = <<>> THEN Panic
         ELSE vec_slice(args[1].items, 0, Len(args[1].items) - 1)
    ELSE Err(ExecError_expected("list", args[1]))

\* tail building the List from the elements left, whatever their number.
fn_tail_List(args) ==
    IF Len(args) < 1 THEN Panic
    ELSE IF args[1].tag = "List"
    THEN IF args[1].items = <<>> THEN Panic
         ELSE Ok(List(Tail(args[1].items)))
    ELSE Err(ExecError_expected("list", args[1]))

\* `li.slice(1..)` aborts on an empty list.
fn_tail(args) ==
    IF Len(args) < 1 THEN Panic
    ELSE IF args[1].tag = "List"
    THEN IF args[1].items = <<>> THEN Panic
         ELSE vec_slice(args[1].items, 1, Len(args[1].items))
    ELSE Err(ExecError_expected("list", args[1]))

fn_list(args) == Ok(VecIntoValue(args))

RECURSIVE Reverse(_)
Reverse(s) == IF s = <<>> THEN <<>> ELSE Append(Reverse(Tail(s)), Head(s))

fn_reverse(args) ==
    IF Len(args) < 1 THEN Panic
    ELSE CASE args[1].tag = "Unit" -> Ok(Unit)
           [] args[1].tag = "List" -> Ok(VecIntoValue(Reverse(args[1].items)))
           [] OTHER -> Err(ExecError_expected("list", args[1]))

QCeil(a) == -QFloor([n |-> -a.n, d |-> a.d])
\* Rounding to the nearest integer, half-way cases away from zero.
QRound(a) == Sgn(a.n) * QFloor([n |-> 2 * Abs(a.n) + a.d, d |-> 2 * a.d])
QFract(a) == QSub(a, [n |-> QTrunc(a), d |-> 1])

\* A step of f64 that maps a finite value to a whole one and leaves the
\* others alone.
FloatWhole(f, whole) == IF is_finite(f) THEN FloatV(whole, 1) ELSE f

fn_abs(args) ==
    IF Len(args) < 1 THEN Panic
    ELSE CASE args[1].tag = "Float"   -> Ok(FloatV(Abs(args[1].n), args[1].d))
           [] args[1].tag = "Integer" -> Ok(IntegerV(Abs(args[1].i)))
           [] args[1].tag = "Ratio"   -> Ok(RatioV(Abs(args[1].n), args[1].d))
           [] OTHER -> Err(ExecError_expected("number", args[1]))

fn_ceil(args) ==
    IF Len(args) < 1 THEN Panic
    ELSE CASE args[1].tag = "Float"   -> Ok(FloatWhole(args[1], QCeil(args[1])))
           [] args[1].tag = "Integer" -> Ok(args[1])
           [] args[1].tag = "Ratio"   -> Ok(RatioV(QCeil(args[1]), 1))
           [] OTHER -> Err(ExecError_expected("number", args[1]))

fn_floor(args) == IF Len(args) < 1 THEN Panic ELSE floor_number(args[1])

fn_round(args) ==
    IF Len(args) < 1 THEN Panic
    ELSE CASE args[1].tag = "Float"   -> Ok(FloatWhole(args[1], QRound(args[1])))
           [] args[1].tag = "Integer" -> Ok(args[1])
           [] args[1].tag = "Ratio"   -> Ok(RatioV(QRound(args[1]), 1))
           [] OTHER -> Err(ExecError_expected("number", args[1]))

fn_trunc(args) ==
    IF Len(args) < 1 THEN Panic
    ELSE CASE args[1].tag = "Float"   -> Ok(FloatWhole(args[1], QTrunc(args[1])))
           [] args[1].tag = "Integer" -> Ok(args[1])
           [] args[1].tag = "Ratio"   -> Ok(RatioV(QTrunc(args[1]), 1))
           [] OTHER -> Err(ExecError_expected("number", args[1]))

\* Integer::from_f64: the whole part of a finite float.
Integer_from_f64(f) == IF is_finite(f) THEN Some(QTrunc(f)) ELSE None

\* Ratio::from_f64: the exact value of a finite float.
Ratio_from_f64(f) == IF is_finite(f) THEN Some(RatioV(f.n, f.d)) ELSE None

fn_int(args) ==
    IF Len(args) < 1 THEN Panic
    ELSE CASE args[1].tag = "Float" ->
                  IF is_infinite(args[1]) \/ is_nan(args[1])
                  THEN Err(ExecError("Overflow"))
                  ELSE IF Integer_from_f64(args[1]).some
                  THEN Ok(IntegerV(Integer_from_f64(args[1]).doc))
                  ELSE Err(ExecError("Overflow"))
           [] args[1].tag = "Integer" -> Ok(args[1])
           [] args[1].tag = "Ratio"   -> Ok(IntegerV(QTrunc(args[1])))
           [] OTHER -> Err(ExecError_expected("number", args[1]))

fn_float(args) ==
    IF Len(args) < 1 THEN Panic
    ELSE CASE args[1].tag = "Float" -> Ok(args[1])
           [] args[1].tag = "Integer" ->
                  IF Integer_to_f64(args[1].i).some
                  THEN Ok(Integer_to_f64(args[1].i).doc)
                  ELSE Err(ExecError("Overflow"))
           [] args[1].tag = "Ratio" ->
                  IF Ratio_to_f64(args[1]).some
                  THEN Ok(Ratio_to_f64(args[1]).doc)
                  ELSE Err(ExecError("Overflow"))
           [] OTHER -> Err(ExecError_expected("number", args[1]))

\* f64::from_value_ref
get_float(v) ==
    IF v.tag = "Float" THEN Ok(v) ELSE Err(ExecError_expected("float", v))

RECURSIVE fn_inf_loop(_, _)
fn_inf_loop(args, i) ==
    IF i > Len(args) THEN Ok(BoolV(TRUE))
    ELSE IF get_float(args[i]).status # "Ok" THEN get_float(args[i])
    ELSE IF is_finite(args[i]) THEN Ok(BoolV(FALSE))
    ELSE fn_inf_loop(args, i + 1)

fn_inf(args) == IF args = <<>> THEN Ok(Infinity) ELSE fn_inf_loop(args, 1)

RECURSIVE fn_nan_loop(_, _)
fn_nan_loop(args, i) ==
    IF i > Len(args) THEN Ok(BoolV(TRUE))
    ELSE IF get_float(args[i]).status # "Ok" THEN get_float(args[i])
    ELSE IF ~is_nan(args[i]) THEN Ok(BoolV(FALSE))
    ELSE fn_nan_loop(args, i + 1)

fn_nan(args) == IF args = <<>> THEN Ok(NaN) ELSE fn_nan_loop(args, 1)

fn_denom(args) ==
    IF Len(args) < 1 THEN Panic
    ELSE CASE args[1].tag = "Integer" -> Ok(IntegerV(1))
           [] args[1].tag = "Ratio"   -> Ok(IntegerV(args[1].d))
           [] OTHER -> Err(ExecError_expected("integer or ratio", args[1]))

fn_fract(args) ==
    IF Len(args) < 1 THEN Panic
    ELSE CASE args[1].tag = "Float" ->
                  Ok(IF is_finite(args[1]) THEN FloatQ(QFract(args[1])) ELSE NaN)
           [] args[1].tag = "Ratio" -> Ok(RatioQ(QFract(args[1])))
           [] OTHER -> Err(ExecError_expected("float or ratio", args[1]))

fn_numer(args) ==
    IF Len(args) < 1 THEN Panic
    ELSE CASE args[1].tag = "Integer" -> Ok(args[1])
           [] args[1].tag = "Ratio"   -> Ok(IntegerV(args[1].n))
           [] OTHER -> Err(ExecError_expected("integer or ratio", args[1]))

fn_rat(args) ==
    IF Len(args) = 1
    THEN CASE args[1].tag = "Float" ->
                  IF Ratio_from_f64(args[1]).some
                  THEN Ok(Ratio_from_f64(args[1]).doc)
                  ELSE Err(ExecError("Overflow"))
           [] args[1].tag = "Integer" -> Ok(Ratio_from_integer(args[1].i))
           [] args[1].tag = "Ratio"   -> Ok(args[1])
           [] OTHER -> Err(ExecError_expected("number", args[1]))
    ELSE IF Len(args) < 2 THEN Panic
    ELSE IF args[1].tag = "Integer" /\ args[2].tag = "Integer"
    THEN IF test_zero(args[2]).status # "Ok" THEN test_zero(args[2])
         ELSE Ratio_new(args[1].i, args[2].i)
    ELSE IF args[1].tag = "Integer"
    THEN Err(ExecError_expected("integer", args[2]))
    ELSE Err(ExecError_expected("integer", args[1]))

fn_recip(args) ==
    IF Len(args) < 1 THEN Panic
    ELSE CASE args[1].tag = "Float" -> Ok(FloatDiv(FloatV(1, 1), args[1]))
           [] args[1].tag = "Integer" ->
                  IF test_zero(args[1]).status # "Ok" THEN test_zero(args[1])
                  ELSE Ratio_new(1, args[1].i)
           [] args[1].tag = "Ratio" ->
                  IF test_zero(IntegerV(args[1].n)).status # "Ok"
                  THEN test_zero(IntegerV(args[1].n))
                  ELSE Ratio_div(RatioV(1, 1), args[1])
           [] OTHER -> Err(ExecError_expected("number", args[1]))

fn_chars(args) ==
    IF Len(args) < 1 THEN Panic
    ELSE IF get_string(args[1]).status # "Ok" THEN get_string(args[1])
    ELSE Ok(VecIntoValue([i \in 1..Len(args[1].s) |-> CharV(args[1].s[i])]))

fn_string(args) ==
    IF Len(args) < 1 THEN Panic
    ELSE CASE args[1].tag = "Char"   -> Ok(StringV(<<args[1].c>>))
           [] args[1].tag = "String" -> Ok(args[1])
           [] OTHER -> Err(ExecError_expected("char or string", args[1]))

\* `args.get_mut(0).map(|v| v.take())`
fn_panic(args) ==
    Err([kind |-> "Panic",
         value |-> IF args = <<>> THEN None ELSE Some(args[1])])

\* The callback of the entry of SYSTEM_FNS, called on args.
Callback(callback, args) ==
    CASE callback = "fn_add"         -> fn_add(args)
      [] callback = "fn_sub"         -> fn_sub(args)
      [] callback = "fn_mul"         -> fn_mul(args)
      [] callback = "fn_pow"         -> fn_pow(args)
      [] callback = "fn_div"         -> fn_div(args)
      [] callback = "fn_floor_div"   -> fn_floor_div(args)
      [] callback = "fn_rem"         -> fn_rem(args)
      [] callback = "fn_shl"         -> fn_shl(args)
      [] callback = "fn_shr"         -> fn_shr(args)
      [] callback = "fn_eq"          -> fn_eq(args)
      [] callback = "fn_ne"          -> fn_ne(args)
      [] callback = "fn_lt"          -> fn_lt(args)
      [] callback = "fn_gt"          -> fn_gt(args)
      [] callback = "fn_le"          -> fn_le(args)
      [] callback = "fn_ge"          -> fn_ge(args)
      [] callback = "fn_zero"        -> fn_zero(args)
      [] callback = "fn_max"         -> fn_max(args)
      [] callback = "fn_min"         -> fn_min(args)
      [] callback = "fn_append"      -> fn_append(args)
      [] callback = "fn_elt"         -> fn_elt(args)
      [] callback = "fn_concat"      -> fn_concat(args)
      [] callback = "fn_join"        -> fn_join(args)
      [] callback = "fn_len"         -> fn_len(args)
      [] callback = "fn_slice"       -> fn_slice(args)
      [] callback = "fn_first"       -> fn_first(args)
      [] callback = "fn_second"      -> fn_second(args)
      [] callback = "fn_last"        -> fn_last(args)
      [] callback = "fn_init"        -> fn_init(args)
      [] callback = "fn_tail"        -> fn_tail(args)
      [] callback = "fn_list"        -> fn_list(args)
      [] callback = "fn_reverse"     -> fn_reverse(args)
      [] callback = "fn_abs"         -> fn_abs(args)
      [] callback = "fn_ceil"        -> fn_ceil(args)
      [] callback = "fn_floor"       -> fn_floor(args)
      [] callback = "fn_round"       -> fn_round(args)
      [] callback = "fn_trunc"       -> fn_trunc(args)
      [] callback = "fn_int"         -> fn_int(args)
      [] callback = "fn_float"       -> fn_float(args)
      [] callback = "fn_inf"         -> fn_inf(args)
      [] callback = "fn_nan"         -> fn_nan(args)
      [] callback = "fn_denom"       -> fn_denom(args)
      [] callback = "fn_fract"       -> fn_fract(args)
      [] callback = "fn_numer"       -> fn_numer(args)
      [] callback = "fn_rat"         -> fn_rat(args)
      [] callback = "fn_recip"       -> fn_recip(args)
      [] callback = "fn_chars"       -> fn_chars(args)
      [] callback = "fn_string"      -> fn_string(args)
      [] callback = "fn_id"          -> fn_id(args)
      [] callback = "fn_is"          -> fn_is(args)
      [] callback = "fn_is_instance" -> fn_is_instance(args)
      [] callback = "fn_null"        -> fn_null(args)
      [] callback = "fn_type_of"     -> fn_type_of(args)
      [] callback = "fn_dot"         -> fn_dot(args)
      [] callback = "fn_dot_eq"      -> fn_dot_eq(args)
      [] callback = "fn_new"         -> fn_new(args)
      [] callback = "fn_format"      -> fn_format(args)
      [] callback = "fn_print"       -> fn_print(args)
      [] callback = "fn_println"     -> fn_println(args)
      [] callback = "fn_panic"       -> fn_panic(args)
      [] callback = "fn_xor"         -> fn_xor(args)
      [] callback = "fn_not"         -> fn_not(args)

MasterInit ==
    /\ mvalues = 0
    /\ mret = MasterRet("none", 0, [status |-> "None"])

(***************************************************************************)
(* Value::Struct(Rc<Struct>): the allocations behind the struct values, by *)
(* id: how many values hold the allocation, and its definition and fields. *)
(***************************************************************************)
MaxRcs == 2

Free == [holders |-> 0, def |-> Unit, fields |-> <<>>]

HasFree(cells) == \E h \in 1..Len(cells) : cells[h].holders = 0

\* The struct value holding allocation h.
Rc_deref(cells, h) == StructV(h, cells[h].def, cells[h].fields)

\* Rc::new(Struct::new(def, fields))
Rc_new(cells, s) ==
    LET h == CHOOSE h \in 1..Len(cells) :
                 /\ cells[h].holders = 0
                 /\ \A k \in 1..(h - 1) : cells[k].holders > 0
    IN  [cells |-> [cells EXCEPT ![h] = [holders |-> 1, def |-> s.def,
                                        fields |-> s.fields]],
         id |-> h]

\* Rc::make_mut writing through an Rc whatever else holds the allocation.
Rc_make_mut_InPlace(cells, h) == [cells |-> cells, id |-> h]

\* Rc::make_mut(&mut s): the allocation itself when s is its only holder,
\* else a clone of it, which s then holds instead.
Rc_make_mut(cells, h) ==
    IF cells[h].holders = 1 THEN [cells |-> cells, id |-> h]
    ELSE Rc_new([cells EXCEPT ![h].holders = @ - 1], Rc_deref(cells, h))

\* Dropping a value that holds allocation h.
Rc_drop(cells, h) ==
    IF cells[h].holders = 1 THEN [cells EXCEPT ![h] = Free]
    ELSE [cells EXCEPT ![h].holders = @ - 1]


(***************************************************************************)
(* Lambda and the scope it was defined in (function.rs, scope.rs).         *)
(* Scope is Rc<GlobalScope> and WeakScope is Weak<GlobalScope>: the        *)
(* GlobalScope, and with it the namespace and every Lambda stored there,   *)
(* is dropped when no strong reference to it is left.                      *)
(***************************************************************************)
MaxLamScopes == 2
MaxHandles == 2
MaxLams == 2
MaxStored == 1

LamScopes == 1..MaxLamScopes

\* Rc::downgrade(scope): a WeakScope.
Rc_downgrade(s) == [kind |-> "Weak", to |-> s]

\* Rc::clone(scope): a Scope.
Rc_clone(s) == [kind |-> "Strong", to |-> s]

\* A Lambda that holds a Scope where the code holds a WeakScope.
Lambda_new_Strong(code, s) ==
    [code |-> code, scope |-> Rc_clone(s), values |-> "None"]

\* Lambda::new.
Lambda_new(code, s) ==
    [code |-> code, scope |-> Rc_downgrade(s), values |-> "None"]

\* Lambda::new_closure: the WeakScope is the one it is given.
Lambda_new_closure(code, scope, values) ==
    [code |-> code, scope |-> scope, values |-> "Some"]

\* The Lambdas alive: the host's and those in the namespaces of the scopes
\* not in rel, as a sequence.
RECURSIVE StoredIn(_, _, _)
StoredIn(n, rel, s) ==
    IF s = 0 THEN <<>>
    ELSE StoredIn(n, rel, s - 1)
         \o (IF s \in rel THEN <<>> ELSE [j \in 1..Len(n[s]) |-> n[s][j].lam])

Alive(l, n, rel) == l \o StoredIn(n, rel, MaxLamScopes)

\* Rc::strong_count of scope s: the Scope handles, and every strong
\* reference a Lambda alive holds.
strong_count(s, h, l, n, rel) ==
    h[s] + Cardinality({i \in 1..Len(Alive(l, n, rel)) :
                            Alive(l, n, rel)[i].scope = Rc_clone(s)})

\* Drop for Rc<GlobalScope>: a scope whose strong count is 0 is dropped, and
\* its namespace with it, which drops the Lambdas stored there in turn.
RECURSIVE DropScopes(_, _, _, _, _)
DropScopes(h, l, n, rel, rounds) ==
    IF rounds = 0 THEN rel
    ELSE DropScopes(h, l, n,
                    rel \cup {s \in LamScopes :
                                  strong_count(s, h, l, n, rel) = 0},
                    rounds - 1)

\* Weak::upgrade: None once the GlobalScope has been dropped.
Weak_upgrade(w, rel) == IF w.to \in rel THEN "None" ELSE "Some"

\* The state after the host's handles and Lambdas and the namespaces became
\* h, l and n.
Owned(h, l, n) ==
    LET rel == DropScopes(h, l, n, released, MaxLamScopes) IN
    /\ held' = h
    /\ lams' = l
    /\ released' = rel
    /\ stored' = [s \in LamScopes |-> IF s \in rel THEN <<>> ELSE n[s]]

LambdaIdle == UNCHANGED <<pvars, svars, mvars, fvars>>

\* Every scope has just been made by GlobalScope::new_using: one handle.
LambdaInit ==
    /\ held = [s \in LamScopes |-> 1]
    /\ released = {}
    /\ lams = <<>>
    /\ stored = [s \in LamScopes |-> <<>>]
    /\ lret = [op |-> "none"]

\* scope.clone()
CloneScope(s) ==
    /\ held[s] \in 1..(MaxHandles - 1)
    /\ Owned([held EXCEPT ![s] = @ + 1], lams, stored)
    /\ UNCHANGED lret
    /\ LambdaIdle

\* drop(scope)
DropScope(s) ==
    /\ held[s] > 0
    /\ Owned([held EXCEPT ![s] = @ - 1], lams, stored)
    /\ UNCHANGED lret
    /\ LambdaIdle

\* Lambda::new(code, &scope)
NewLambda(s) ==
    /\ held[s] > 0
    /\ Len(lams) < MaxLams
    /\ Owned(held, Append(lams, Lambda_new(1, s)), stored)
    /\ UNCHANGED lret
    /\ LambdaIdle

\* Lambda::new_closure(code, scope, values), on the scope of a Lambda
NewClosure(i) ==
    /\ i \in 1..Len(lams)
    /\ Len(lams) < MaxLams
    /\ Owned(held,
              Append(lams, Lambda_new_closure(lams[i].code, lams[i].scope,
                                              "Some")),
              stored)
    /\ UNCHANGED lret
    /\ LambdaIdle

\* lambda.clone(): #[derive(Clone)]
CloneLambda(i) ==
    /\ i \in 1..Len(lams)
    /\ Len(lams) < MaxLams
    /\ Owned(held, Append(lams, lams[i]), stored)
    /\ UNCHANGED lret
    /\ LambdaIdle

WithoutLam(l, i) == SubSeq(l, 1, i - 1) \o SubSeq(l, i + 1, Len(l))

\* drop(lambda)
DropLambda(i) ==
    /\ i \in 1..Len(lams)
    /\ Owned(held, WithoutLam(lams, i), stored)
    /\ UNCHANGED lret
    /\ LambdaIdle

LambdaFields == {"macros", "constants", "values"}

\* add_macro, add_constant, add_value on scope s with Lambda i, moved in or
\* cloned.
StoreLambda(i, field, s, moved) ==
    /\ i \in 1..Len(lams)
    /\ held[s] > 0
    /\ Len(stored[s]) < MaxStored
    /\ Owned(held,
              IF moved THEN WithoutLam(lams, i) ELSE lams,
              [stored EXCEPT ![s] =
                   Append(@, [field |-> field, lam |-> lams[i]])])
    /\ UNCHANGED lret
    /\ LambdaIdle

\* lambda.scope.upgrade(): a Scope handle when it yields one.
UpgradeScope(i) ==
    /\ i \in 1..Len(Alive(lams, stored, released))
    /\ LET lam == Alive(lams, stored, released)[i]
           r == Weak_upgrade(lam.scope, released)
       IN /\ r = "Some" => held[lam.scope.to] < MaxHandles
          /\ lret' = [op |-> "upgrade", lam |-> lam, r |-> r,
                      handles |-> held[lam.scope.to]]
          /\ Owned(IF r = "Some"
                    THEN [held EXCEPT ![lam.scope.to] = @ + 1] ELSE held,
                    lams, stored)
    /\ LambdaIdle

LambdaNext ==
    \/ \E s \in LamScopes : CloneScope(s)
    \/ \E s \in LamScopes : DropScope(s)
    \/ \E s \in LamScopes : NewLambda(s)
    \/ \E i \in 1..MaxLams : NewClosure(i)
    \/ \E i \in 1..MaxLams : CloneLambda(i)
    \/ \E i \in 1..MaxLams : DropLambda(i)
    \/ \E i \in 1..MaxLams, field \in LambdaFields, s \in LamScopes,
          moved \in BOOLEAN : StoreLambda(i, field, s, moved)
    \/ \E i \in 1..(MaxLams + MaxLamScopes * MaxStored) : UpgradeScope(i)

\* No system function has been called.
FnInit ==
    /\ fcall = [f |-> 0, args |-> <<>>]
    /\ fret = [status |-> "None"]
    /\ rcs = [h \in 1..MaxRcs |-> Free]
    /\ stdout = <<>>

MasterNext ==
    \/ \E n \in NameHandles : MasterQuery(n)
    \/ MasterGetValues
    \/ MasterValuesNext

MasterSpecInit ==
    ParserInit(<<EndTok>>) /\ ScopeInit /\ MasterInit /\ FnInit /\ LambdaInit

MasterSpec == MasterSpecInit /\ [][MasterNext]_vars

(***************************************************************************)
(* Calls of the system functions.  The dispatcher checks the arity of the  *)
(* table entry against the number of arguments, calls the callback and     *)
(* hands its result on.                                                    *)
(***************************************************************************)
MaxArgs == 3

\* The numbers the arithmetic and the comparisons are called on.
Numbers ==
    {IntegerV(i) : i \in -3..3}
    \cup {RatioV(0, 1), RatioV(1, 2), RatioV(-3, 2)}
    \cup {FloatV(0, 1), FloatV(1, 1), FloatV(1, 2), FloatV(-2, 1), NaN, Infinity, NegInfinity}

FooDef == StructDefV(1, "foo", << <<"x", "integer">> >>)

\* One or two values of every variant a program can hold; every List is
\* non-empty.
Values ==
    {Unit, BoolV(TRUE), IntegerV(1), IntegerV(2), RatioV(1, 2), FloatV(1, 2),
     CharV("a"), StringV(<<"a", "e2">>), NameV("integer"), KeywordV("x"),
     List(<<IntegerV(1)>>), List(<<CharV("a"), IntegerV(2)>>),
     FooDef, StructV(1, FooDef, << <<"x", IntegerV(1)>> >>), LambdaV(1)}

\* The argument slices of at most MaxArgs values of D.
Slices(D) == UNION {[1..n -> D] : n \in 0..MaxArgs}

FnIdle == UNCHANGED <<pvars, svars, mvars, lvars>>

\* The call of the system function named f on args.
CallSystemFn(f, args) ==
    /\ accepts(SYSTEM_FNS[f + 1].arity, Len(args))
    /\ fcall' = [f |-> f, args |-> args]
    /\ fret' = Callback(SYSTEM_FNS[f + 1].callback, args)
    /\ UNCHANGED <<rcs, stdout>>
    /\ FnIdle

\* The dispatcher, at rest, calls some system function on values of D.
Dispatch(D) ==
    /\ fret.status = "None"
    /\ \E f \in 0..(NUM_SYSTEM_FNS - 1), args \in Slices(D) : CallSystemFn(f, args)

\* The result is handed to the caller.
ReturnSystemFn ==
    /\ fret.status \in {"Ok", "Err"}
    /\ fcall' = [f |-> 0, args |-> <<>>]
    /\ fret' = [status |-> "None"]
    /\ UNCHANGED <<rcs, stdout>>
    /\ FnIdle

\* Sequences and the indexes into them: the empty list, lists of one and
\* two elements, strings with two-byte chars, and every index from below 0
\* to beyond the longest of them.
MaxIndex == 5

Indexed ==
    {Unit, List(<<IntegerV(1)>>), List(<<CharV("a"), IntegerV(2)>>),
     StringV(<<"a", "e2">>), StringV(<<"e2", "e2">>)}
    \cup {IntegerV(i) : i \in -1..MaxIndex}

FnNext ==
    \/ Dispatch(Values)
    \/ Dispatch(Numbers)
    \/ Dispatch(Indexed)
    \/ ReturnSystemFn

FnSpecInit ==
    ParserInit(<<EndTok>>) /\ ScopeInit /\ MasterInit /\ FnInit /\ LambdaInit

FnSpec == FnSpecInit /\ [][FnNext]_vars

(***************************************************************************)
(* `new` and `.=` called by a program that holds records: the arguments    *)
(* are a definition or a held record and up to MaxPairs keyword pairs.     *)
(***************************************************************************)
MaxPairs == 2

PointDef == StructDefV(2, "point", << <<"x", "integer">>, <<"y", "number">> >>)

BagDef == StructDefV(3, "bag", << <<"y", "list">> >>)

StructDefs == {FooDef, PointDef, BagDef}

FieldArgs == {KeywordV("x"), KeywordV("y"), KeywordV("z"), IntegerV(1),
              FloatV(1, 2), StringV(<<"a">>), Unit, List(<<IntegerV(1)>>)}

KeywordParams == UNION {[1..n -> FieldArgs] : n \in 0..(2 * MaxPairs)}

\* (new def kv...): fn_new, the struct it returns held by a new allocation.
CallNew(def, kv) ==
    LET args == <<def>> \o kv
        r == fn_new(args)
        n == Rc_new(rcs, r.val)
    IN  /\ fcall' = [f |-> HandleOf("fn_new"), args |-> args]
        /\ IF r.status = "Ok"
           THEN /\ rcs' = n.cells
                /\ fret' = Ok(Rc_deref(n.cells, n.id))
           ELSE /\ rcs' = rcs
                /\ fret' = r
        /\ UNCHANGED stdout
        /\ FnIdle

\* (.= s kv...) on the record of allocation h: fn_dot_eq.  The caller
\* hands over the value it holds (moved) or a clone of it, in which case
\* the record is also held elsewhere during the call.  The loop writes
\* through Rc::make_mut; an Err return drops s.
CallDotEq(h, kv, moved) ==
    LET passed == IF moved THEN rcs ELSE [rcs EXCEPT ![h].holders = @ + 1]
        args == <<Rc_deref(passed, h)>> \o kv
        m == Rc_make_mut(passed, h)
        l == fn_dot_eq_loop(Rc_deref(m.cells, m.id), args, 2)
        written == [m.cells EXCEPT ![m.id].fields = l.s.fields]
    IN  /\ fcall' = [f |-> HandleOf("fn_dot_eq"), args |-> args]
        /\ IF l.r.status = "Ok"
           THEN /\ rcs' = written
                /\ fret' = Ok(Rc_deref(written, m.id))
           ELSE /\ rcs' = Rc_drop(written, m.id)
                /\ fret' = l.r
        /\ UNCHANGED stdout
        /\ FnIdle

DispatchNew ==
    /\ fret.status = "None"
    /\ HasFree(rcs)
    /\ \E def \in StructDefs, kv \in KeywordParams : CallNew(def, kv)

DispatchDotEq(moved) ==
    /\ fret.status = "None"
    /\ moved \/ HasFree(rcs)
    /\ \E h \in 1..MaxRcs :
           /\ rcs[h].holders > 0
           /\ \E kv \in KeywordParams : CallDotEq(h, kv, moved)

\* The program lets go of a record it holds.
DropRc ==
    /\ fret.status = "None"
    /\ \E h \in 1..MaxRcs :
           /\ rcs[h].holders > 0
           /\ rcs' = Rc_drop(rcs, h)
    /\ UNCHANGED <<fcall, fret, stdout>>
    /\ FnIdle

StructNext ==
    \/ DispatchNew
    \/ DispatchDotEq(TRUE)
    \/ DispatchDotEq(FALSE)
    \/ DropRc
    \/ ReturnSystemFn

StructSpec == FnSpecInit /\ [][StructNext]_vars

(***************************************************************************)
(* print and println on a writer that records what it is asked for.  In    *)
(* the other specifications the writer discards it.                        *)
(***************************************************************************)
MaxOut == 4

PrintChars == {"a", "~", "\n"}

PrintArgs ==
    {<<StringV(s)>> : s \in UNION {[1..n -> PrintChars] : n \in 0..2}}
    \cup {<<IntegerV(1)>>, <<StringV(<<"a">>), IntegerV(1)>>}

\* The ways the writer can fare while a text of up to three chars is
\* written.
IoOutcomes == {IoOk, FlushFails} \cup {WriteFails(k) : k \in 0..2}

CallPrint(args, io) ==
    /\ fcall' = [f |-> HandleOf("fn_print"), args |-> args]
    /\ fret' = fn_print_on(args, stdout, io).r
    /\ stdout' = fn_print_on(args, stdout, io).out
    /\ UNCHANGED rcs
    /\ FnIdle

CallPrintln(args, io) ==
    /\ fcall' = [f |-> HandleOf("fn_println"), args |-> args]
    /\ fret' = fn_println_on(args, stdout, io).r
    /\ stdout' = fn_println_on(args, stdout, io).out
    /\ UNCHANGED rcs
    /\ FnIdle

DispatchPrint ==
    /\ fret.status = "None"
    /\ Len(stdout) < MaxOut
    /\ \E args \in PrintArgs, io \in IoOutcomes : CallPrint(args, io)

DispatchPrintln ==
    /\ fret.status = "None"
    /\ Len(stdout) < MaxOut
    /\ \E args \in PrintArgs, io \in IoOutcomes : CallPrintln(args, io)

PrintNext ==
    \/ DispatchPrint
    \/ DispatchPrintln
    \/ ReturnSystemFn

PrintSpec == FnSpecInit /\ [][PrintNext]_vars

LambdaSpec == FnSpecInit /\ [][LambdaNext]_vars

ScopeSpecInit ==
    ParserInit(<<EndTok>>) /\ ScopeInit /\ MasterInit /\ FnInit /\ LambdaInit

ScopeNext ==
    \/ \E s \in ScopeIds : NewUsing(s)
    \/ \E s \in ScopeIds, n \in Names, v \in Vals : AddConstant(s, n, v)
    \/ \E s \in ScopeIds, n \in Names, l \in Lambdas : AddMacro(s, n, l)
    \/ \E s \in ScopeIds, n \in Names, v \in Vals : AddValue(s, n, v)
    \/ \E s \in ScopeIds, e \in ExportLists : SetExports(s, e)
    \/ \E s \in ScopeIds, i \in ImportSets : AddImports(s, i)
    \/ \E s \in ScopeIds, n \in Strings : AddName(s, n)
    \/ \E d \in ScopeIds, s \in ScopeIds : ImportAllConstants(d, s)
    \/ \E d \in ScopeIds, s \in ScopeIds : ImportAllMacros(d, s)
    \/ \E d \in ScopeIds, s \in ScopeIds : ImportAllValues(d, s)

ScopeSpec == ScopeSpecInit /\ [][ScopeNext]_vars

\* The scope operations, called from the top level or from inside a
\* with_* callback.
BorrowNext ==
    \/ ScopeNext
    \/ \E m \in WithMethods, s \in ScopeIds : WithEnter(m, s)
    \/ WithExit

BorrowSpec == ScopeSpecInit /\ [][BorrowNext]_vars

Init ==
    /\ \E stream \in Streams : ParserInit(stream)
    /\ ScopeInit
    /\ MasterInit
    /\ FnInit
    /\ LambdaInit

Next ==
    \/ CallParseExpr
    \/ CallParseSingleExpr
    \/ CallParseExprs
    \/ ReadDocComment
    \/ ParseExprStep
    \/ ParseSingleExprTail
    \/ ParseExprsPeek

Spec == Init /\ [][Next]_vars

(***************************************************************************)
(* The reader and the list functions in sequence: parse_expr reads an      *)
(* expression, and the list functions are called on what it returned, on   *)
(* fresh arguments and on what an earlier call returned.                   *)
(***************************************************************************)
MaxItems == 1
MaxListTokens == 3

ListStreams ==
    { s \o <<EndTok>> :
        s \in SeqsUpTo({Tok("LeftParen", ""), Tok("RightParen", ""),
                        Tok("Name", "a")}, MaxListTokens) }

ListFns == {"fn_append", "fn_concat", "fn_join", "fn_slice", "fn_init",
            "fn_tail", "fn_list", "fn_reverse", "fn_chars"}

ListArgs == {Unit, IntegerV(1), StringV(<<"a">>)}

ListRest == UNION {[1..n -> ListArgs] : n \in 0..2}

\* A value short and flat enough to be passed on.
Small(v) ==
    CASE v.tag = "List" ->
             /\ Len(v.items) <= MaxItems
             /\ \A i \in 1..Len(v.items) :
                    v.items[i].tag = "List" =>
                        \A j \in 1..Len(v.items[i].items) :
                            v.items[i].items[j].tag # "List"
      [] v.tag = "String" -> Len(v.s) <= MaxItems
      [] OTHER -> v.tag = "Unit"

ListInit ==
    /\ \E stream \in ListStreams : ParserInit(stream)
    /\ ScopeInit
    /\ MasterInit
    /\ FnInit
    /\ LambdaInit

\* The reader runs while no function is being called.
ReadExpr ==
    /\ fret.status = "None"
    /\ CallParseExpr \/ ParseExprStep

\* What a list function is called on first: nothing, the value the reader
\* returned, or the value the call before returned.
Heads ==
    IF fret.status = "Ok"
    THEN IF Small(fret.val) THEN {<<fret.val>>} ELSE {}
    ELSE IF fret.status = "None"
    THEN {<<>>} \cup (IF ret.op = "parse_expr" /\ ret.r.status = "Ok"
                      THEN {<<ret.r.val>>} ELSE {})
    ELSE {}

\* A list function is called on fresh arguments, on what the reader
\* returned, or on what the call before it returned.
CallList ==
    /\ op = "idle"
    /\ \E head \in Heads, cb \in ListFns, rest \in ListRest :
           CallSystemFn(HandleOf(cb), head \o rest)

ListNext ==
    \/ ReadExpr
    \/ CallList
    \/ ReturnSystemFn

ListSpec == ListInit /\ [][ListNext]_vars

(***************************************************************************)
(* What the reader is meant to build, read off the token stream by         *)
(* recursive descent: the yardstick the results of the parser are held to. *)
(***************************************************************************)
StartIdx == PendingIdx(start)
LastIdx == PendingIdx(Here) - 1

RECURSIVE RunEnd(_, _)
\* The first index from j on whose token is not of one of the kinds.
RunEnd(j, kinds) ==
    IF j <= Len(tokens) /\ tokens[j].kind \in kinds
    THEN RunEnd(j + 1, kinds) ELSE j

RECURSIVE RunBegin(_, _, _)
\* The least j, lo <= j <= k, with the tokens j..k all of the kinds.
RunBegin(k, lo, kinds) ==
    IF k > lo /\ tokens[k - 1].kind \in kinds
    THEN RunBegin(k - 1, lo, kinds) ELSE k

Count(j, k, kind) == Cardinality({ i \in j..k : tokens[i].kind = kind })

\* Backquotes minus commas among the tokens j..k.
Net(j, k) == Count(j, k, "BackQuote") - Count(j, k, "Comma")

Wrap(v, n) ==
    IF n > 0 THEN quasiquote(v, n)
    ELSE IF n < 0 THEN comma(v, -n)
    ELSE v

RefFail == [ok |-> FALSE, v |-> Unit, next |-> 0]
RefOk(v, nxt) == [ok |-> TRUE, v |-> v, next |-> nxt]

RECURSIVE RefExpr(_), RefItems(_, _)
\* The expression that begins at token j, and the index after it.
RefExpr(j) ==
    IF j > Len(tokens) THEN RefFail
    ELSE
    LET t == tokens[j]
    IN  CASE t.kind \in AtomKinds ->
                LET a == AtomValue(j, t)
                IN  IF a.status = "Ok" THEN RefOk(a.val, j + 1) ELSE RefFail
          [] t.kind = "Quote" ->
                LET k == RunEnd(j, {"Quote"})
                    inner == RefExpr(k)
                IN  IF inner.ok THEN RefOk(quote(inner.v, k - j), inner.next)
                    ELSE RefFail
          [] t.kind \in {"BackQuote", "Comma"} ->
                LET k == RunEnd(j, {"BackQuote", "Comma"})
                    inner == RefExpr(k)
                IN  IF inner.ok
                    THEN RefOk(Wrap(inner.v, Net(j, k - 1)), inner.next)
                    ELSE RefFail
          [] t.kind = "CommaAt" ->
                LET inner == RefExpr(j + 1)
                IN  IF inner.ok THEN RefOk(comma_at(inner.v, 1), inner.next)
                    ELSE RefFail
          [] t.kind = "LeftParen" -> RefItems(j + 1, <<>>)
          [] OTHER -> RefFail

\* The expressions from token j up to the closing parenthesis, after acc.
RefItems(j, acc) ==
    IF j > Len(tokens) THEN RefFail
    ELSE IF tokens[j].kind = "RightParen"
    THEN RefOk(VecIntoValue(acc), j + 1)
    ELSE LET e == RefExpr(j)
         IN  IF e.ok THEN RefItems(e.next, Append(acc, e.v)) ELSE RefFail

\* A call of parse_expr has returned Ok, and o is the method that returned.
ReturnedOk(o) == op = "idle" /\ ret.op = o /\ ret.r.status = "Ok"
ReturnedErr(o) == op = "idle" /\ ret.op = o /\ ret.r.status = "Err"

\* The tokens the finished call consumed include one of the kinds.
Consumed(kinds) == \E i \in StartIdx..LastIdx : tokens[i].kind \in kinds

(***************************************************************************)
(* C1: in parse_expr a run of adjacent BackQuote and Comma tokens before   *)
(* an expression v is held as one Backticks group whose count n is the     *)
(* number of backquotes minus the number of commas of the run, and v is    *)
(* settled as v.quasiquote(n) if n > 0, as v.comma(-n) if n < 0 and as v   *)
(* if n = 0; a CommaAt is a group of its own, never merged with its        *)
(* neighbours, and settles as v.comma_at(1).                               *)
(***************************************************************************)
C1_RunIsOneGroup ==
    (pc = "expr" /\ LastIdx >= StartIdx
        /\ tokens[LastIdx].kind \in {"BackQuote", "Comma"}) =>
        LET j == RunBegin(LastIdx, StartIdx, {"BackQuote", "Comma"})
        IN  /\ TopIs(stack, "Backticks")
            /\ Last(stack).n = Net(j, LastIdx)
            /\ Len(stack) > 1 => stack[Len(stack) - 1].g # "Backticks"

C1_CommaAtIsSingleton ==
    (pc = "expr" /\ LastIdx >= StartIdx /\ tokens[LastIdx].kind = "CommaAt") =>
        LET j == RunBegin(LastIdx, StartIdx, {"CommaAt"})
            m == LastIdx - j + 1
        IN  /\ Len(stack) >= m
            /\ \A i \in 1..m : stack[Len(stack) - i + 1] = CommaAtGroup
            /\ Len(stack) > m => stack[Len(stack) - m].g # "CommaAt"

C1_Settled ==
    (ReturnedOk("parse_expr") /\ Consumed({"BackQuote", "Comma", "CommaAt"})) =>
        /\ RefExpr(StartIdx).ok
        /\ ret.r.val = RefExpr(StartIdx).v

\* C1: a BackQuote/Comma run is one Backticks group of the net count and
\* settles as quasiquote(n), comma(-n) or v; a CommaAt settles as comma_at(1).
C1_BackticksCollapse ==
    /\ C1_RunIsOneGroup
    /\ C1_CommaAtIsSingleton
    /\ C1_Settled

\* A parse of "` , a" returned a: the run of net count 0 left a unwrapped.
C1_Witness ==
    /\ op = "idle" /\ ret.op = "parse_expr" /\ ret.r.status = "Ok"
    /\ StartIdx = 1
    /\ LastIdx = 3
    /\ tokens[1].kind = "BackQuote"
    /\ tokens[2].kind = "Comma"
    /\ ret.r.val = NameV("a")

(***************************************************************************)
(* C2: parse_expr fails with UnbalancedComma, at the span of the offending *)
(* token, exactly when a Comma or CommaAt arrives while the backtick       *)
(* counter is 0, that is when the groups still open hold no more           *)
(* backquotes than unquotes; otherwise the token is accepted and the       *)
(* counter decreases by exactly 1.                                         *)
(***************************************************************************)
RECURSIVE OpenBalance(_)
\* Backquotes minus unquotes (commas and comma-ats) of the open groups.
OpenBalance(st) ==
    IF st = <<>> THEN 0
    ELSE OpenBalance(Front(st))
            + (CASE Last(st).g = "Backticks" -> Last(st).n
                 [] Last(st).g = "CommaAt"   -> -1
                 [] OTHER                    -> 0)

PendingTok == tokens[PendingIdx(Here)]

\* The step that reads a Comma or CommaAt.
C2_CommaStep ==
    (pc = "expr" /\ PendingTok.kind \in {"Comma", "CommaAt"}) =>
        /\ (total_backticks = 0) = (OpenBalance(stack) = 0)
        /\ IF OpenBalance(stack) = 0
           THEN /\ pc' = "idle"
                /\ ret'.r = Err(ParseError(PendingIdx(Here), "UnbalancedComma"))
           ELSE /\ pc' = "expr"
                /\ total_backticks' = total_backticks - 1
                /\ OpenBalance(stack') = OpenBalance(stack) - 1

\* No other token, and no other count, gives UnbalancedComma.
C2_OnlyThen ==
    (op = "idle" /\ ret.op # "read_doc_comment" /\ ret.r.status = "Err"
        /\ ret.r.err.kind = "UnbalancedComma") =>
        /\ ret.r.err.span = LastIdx
        /\ tokens[LastIdx].kind \in {"Comma", "CommaAt"}
        /\ total_backticks = 0
        /\ OpenBalance(stack) = 0

\* C2: UnbalancedComma exactly for a Comma or CommaAt read at counter 0;
\* otherwise the counter decreases by 1.
C2_UnbalancedComma == [](C2_OnlyThen) /\ [][C2_CommaStep]_vars

\* "` ( , ,": the second comma, token 4, is the one refused.
C2_Witness ==
    /\ ReturnedErr("parse_expr")
    /\ ret.r.err = ParseError(4, "UnbalancedComma")
    /\ tokens[1].kind = "BackQuote"
    /\ tokens[2].kind = "LeftParen"
    /\ tokens[3].kind = "Comma"
    /\ tokens[4].kind = "Comma"

(***************************************************************************)
(* C3: when parse_expr reads End before an expression is complete it fails *)
(* with MissingCloseParen if a Parens group is anywhere on the group stack *)
(* and with UnexpectedEof otherwise, at the span of the End token.         *)
(***************************************************************************)
AnyParens(st) == \E i \in 1..Len(st) : st[i].g = "Parens"

\* The step that reads End.  A Parens group is open exactly when the call
\* has read more left than right parentheses.
C3_EndStep ==
    (pc = "expr" /\ PendingTok.kind = "End") =>
        LET k == PendingIdx(Here)
        IN  /\ pc' = "idle"
            /\ ret'.r = Err(ParseError(k, IF AnyParens(stack)
                                          THEN "MissingCloseParen"
                                          ELSE "UnexpectedEof"))
            /\ op \in {"parse_expr", "parse_single_expr"} =>
                (AnyParens(stack) <=>
                    Count(StartIdx, k - 1, "LeftParen")
                        > Count(StartIdx, k - 1, "RightParen"))

\* Both errors are reported for the End token alone.
C3_OnlyAtEnd ==
    (op = "idle" /\ ret.op # "read_doc_comment" /\ ret.r.status = "Err"
        /\ ret.r.err.kind \in {"MissingCloseParen", "UnexpectedEof"}) =>
        /\ tokens[ret.r.err.span].kind = "End"
        /\ (ret.r.err.kind = "MissingCloseParen") = AnyParens(stack)

\* C3: End gives MissingCloseParen if a Parens group is anywhere on the
\* stack, UnexpectedEof otherwise, at the span of End.
C3_EndOfInput == [](C3_OnlyAtEnd) /\ [][C3_EndStep]_vars

\* "( '" and then End: the Parens group lies under a pending quote.
C3_Witness ==
    /\ ReturnedErr("parse_expr")
    /\ ret.r.err.kind = "MissingCloseParen"
    /\ Len(stack) = 2
    /\ stack[1].g = "Parens"
    /\ stack[2].g = "Quotes"

\* End with only markers pending.
C3_WitnessEof ==
    /\ ReturnedErr("parse_expr")
    /\ ret.r.err.kind = "UnexpectedEof"
    /\ stack # <<>>

(***************************************************************************)
(* C4: a RightParen whose innermost open group is a Parens group closes    *)
(* that group and produces the List of the values collected in it, in      *)
(* token order, or Unit when there is none; with an empty group stack it   *)
(* fails with UnmatchedParen; with a pending quote, backquote, comma or    *)
(* comma-at marker innermost it fails with UnexpectedToken, expected       *)
(* "expression", found ")".                                                *)
(***************************************************************************)
NumParens(st) == Cardinality({ i \in 1..Len(st) : st[i].g = "Parens" })

\* The step that reads a RightParen.
C4_RightParenStep ==
    (pc = "expr" /\ PendingTok.kind = "RightParen") =>
        LET k == PendingIdx(Here)
        IN  CASE stack = <<>> ->
                    /\ pc' = "idle"
                    /\ ret'.r = Err(ParseError(k, "UnmatchedParen"))
              [] stack # <<>> /\ Last(stack).g # "Parens" ->
                    /\ pc' = "idle"
                    /\ ret'.r = Err(UnexpectedToken(k, "expression", ")"))
              [] stack # <<>> /\ Last(stack).g = "Parens" ->
                    /\ NumParens(stack') = NumParens(stack) - 1
                    /\ (Len(stack) = 1 /\ op = "parse_expr") =>
                         /\ pc' = "idle"
                         /\ ret'.r = Ok(IF Last(stack).values = <<>> THEN Unit
                                        ELSE List(Last(stack).values))

\* A parenthesised expression is the list of its items, first token first.
C4_ListInTokenOrder ==
    (ReturnedOk("parse_expr") /\ Consumed({"LeftParen"})) =>
        /\ RefExpr(StartIdx).ok
        /\ ret.r.val = RefExpr(StartIdx).v

C4_OnlyThen ==
    (op = "idle" /\ ret.op # "read_doc_comment" /\ ret.r.status = "Err"
        /\ ret.r.err.kind = "UnmatchedParen") =>
        /\ tokens[ret.r.err.span].kind = "RightParen"
        /\ stack = <<>>

\* C4: RightParen closes the innermost Parens group into the List of its
\* values in token order (Unit if none), and fails on an empty stack or on a
\* pending marker.
C4_RightParen ==
    /\ [](C4_ListInTokenOrder /\ C4_OnlyThen)
    /\ [][C4_RightParenStep]_vars

\* "( a b )" gave the list (a b).
C4_Witness ==
    /\ op = "idle" /\ ret.op = "parse_expr" /\ ret.r.status = "Ok"
    /\ StartIdx = 1
    /\ tokens[1].kind = "LeftParen"
    /\ ret.r.val = List(<<NameV("a"), NameV("b")>>)

\* "( )" gave Unit.
C4_WitnessUnit ==
    /\ op = "idle" /\ ret.op = "parse_expr" /\ ret.r.status = "Ok"
    /\ tokens[StartIdx].kind = "LeftParen"
    /\ ret.r.val = Unit

\* "' )": a RightParen on a pending quote.
C4_WitnessMarker ==
    /\ ReturnedErr("parse_expr")
    /\ ret.r.err.kind = "UnexpectedToken"
    /\ ret.r.err.found = ")"

(***************************************************************************)
(* C5: a run of n >= 1 consecutive Quote tokens before an expression v is  *)
(* one Quotes group of count n and is parsed as the single wrapper         *)
(* v.quote(n); the wrapped value is settled into the enclosing group like  *)
(* any value; Quote groups on both sides of a Backticks or CommaAt group   *)
(* stay apart.                                                             *)
(***************************************************************************)
C5_RunIsOneGroup ==
    (pc = "expr" /\ LastIdx >= StartIdx /\ tokens[LastIdx].kind = "Quote") =>
        LET j == RunBegin(LastIdx, StartIdx, {"Quote"})
        IN  /\ TopIs(stack, "Quotes")
            /\ Last(stack).n = LastIdx - j + 1
            /\ Len(stack) > 1 => stack[Len(stack) - 1].g # "Quotes"

C5_Settled ==
    (ReturnedOk("parse_expr") /\ Consumed({"Quote"})) =>
        /\ RefExpr(StartIdx).ok
        /\ ret.r.val = RefExpr(StartIdx).v

\* C5: n consecutive quotes before v are one Quotes group and give
\* v.quote(n).
C5_QuoteRun ==
    /\ C5_RunIsOneGroup
    /\ C5_Settled

\* "' ' a" gave a.quote(2).
C5_Witness ==
    /\ op = "idle" /\ ret.op = "parse_expr" /\ ret.r.status = "Ok"
    /\ StartIdx = 1
    /\ tokens[1].kind = "Quote"
    /\ tokens[2].kind = "Quote"
    /\ ret.r.val = quote(NameV("a"), 2)

\* "' ` ' a": the quotes around the backquote are two wrappers.
C5_WitnessApart ==
    /\ op = "idle" /\ ret.op = "parse_expr" /\ ret.r.status = "Ok"
    /\ ret.r.val = quote(quasiquote(quote(NameV("a"), 1), 1), 1)

(***************************************************************************)
(* C6: on every token stream of the listed kinds, DocComment tokens at any *)
(* position included, ended by End, each call of parse_expr returns a      *)
(* Value or a ParseError and never aborts in another way; it returns at    *)
(* the first error without reading further tokens.                         *)
(***************************************************************************)
IsTerminator(t) == t.kind \in {"End", "LexError"}

C6_StopsAtFirstError ==
    (ReturnedErr("parse_expr") /\ ~IsTerminator(tokens[ret.r.err.span])) =>
        /\ cur_token = <<>>
        /\ lexpos = ret.r.err.span + 1

\* C6: parse_expr always returns Ok or Err, and stops at the first error.
C6_ParseExprTotal ==
    /\ pc # "panicked"
    /\ (op = "idle" /\ ret.op = "parse_expr") => ret.r.status \in {"Ok", "Err"}
    /\ C6_StopsAtFirstError

\* What does hold: no abort happens before a DocComment is read by
\* parse_expr, and the abort is the only way not to return.
C6_AbortOnlyOnDocComment ==
    /\ pc = "panicked" => (LastIdx >= 1 /\ tokens[LastIdx].kind = "DocComment")
    /\ C6_StopsAtFirstError

(***************************************************************************)
(* C7: parse_single_expr returns Ok(v) exactly when parse_expr returns     *)
(* Ok(v) and the token right after the expression is End; any other token  *)
(* there gives UnexpectedToken, expected "eof", found the name of that     *)
(* token, at its span; an error of parse_expr is passed through unchanged. *)
(***************************************************************************)
\* What parse_single_expr must answer, given what parse_expr does from the
\* position where the call began.
C7_Expected ==
    LET pe == parse_expr(start)
        k == PendingIdx(pe.f.p)
    IN  IF pe.r.status = "Err" THEN pe.r
        ELSE IF tokens[k].kind = "End" THEN Ok(pe.r.val)
        ELSE IF tokens[k].kind = "LexError" THEN Err(ParseError(k, "InvalidToken"))
        ELSE Err(UnexpectedToken(k, "eof", TokenName(tokens[k])))

\* C7: parse_single_expr is parse_expr followed by the test for End.
C7_SingleExpr ==
    /\ (op = "idle" /\ ret.op = "parse_single_expr") =>
          /\ parse_expr(start).r.status # "Panic"
          /\ ret.r = C7_Expected
    /\ (op = "parse_single_expr" /\ pc = "tail") =>
          parse_expr(start).r = Ok(expr)

\* "a b": the second leaf is refused.
C7_Witness ==
    /\ ReturnedErr("parse_single_expr")
    /\ ret.r.err = UnexpectedToken(2, "eof", "name")
    /\ tokens[1] = Tok("Name", "a")

\* "( a )" and End: accepted.
C7_WitnessOk ==
    /\ ReturnedOk("parse_single_expr")
    /\ ret.r.val = List(<<NameV("a")>>)

\* An error of parse_expr came through.
C7_WitnessPassThrough ==
    /\ ReturnedErr("parse_single_expr")
    /\ ret.r.err.kind = "UnmatchedParen"

(***************************************************************************)
(* C8: parse_exprs reads the input to End and returns the values of all    *)
(* top-level expressions in source order, skipping the doc comments        *)
(* between them; the empty vector when there is no expression; the first   *)
(* error, and none of the values before it, when an expression fails.      *)
(***************************************************************************)
RECURSIVE RefSkipDocs(_)
RefSkipDocs(j) ==
    IF tokens[j].kind = "DocComment" THEN RefSkipDocs(j + 1) ELSE j

RECURSIVE RefExprs(_, _)
\* The top-level expressions from token j on, after acc: parse_expr's
\* answer for each, up to End or to the first that is no value.
RefExprs(p, acc) ==
    LET a == peek(p)
    IN  IF a.r.status = "Err" THEN a.r
        ELSE IF a.r.val.tok.kind = "End" THEN Ok(acc)
        ELSE LET pe == parse_expr(a.p)
             IN  IF pe.r.status = "Ok"
                 THEN RefExprs(pe.f.p, Append(acc, pe.r.val))
                 ELSE pe.r

RECURSIVE RefTopLevel(_, _)
\* The same, read off the stream by recursive descent; fails where the
\* stream is no sequence of expressions and doc comments.
RefTopLevel(j, acc) ==
    LET k == RefSkipDocs(j)
    IN  IF tokens[k].kind = "End" THEN RefOk(acc, k)
        ELSE LET e == RefExpr(k)
             IN  IF e.ok THEN RefTopLevel(e.next, Append(acc, e.v)) ELSE RefFail

\* C8: parse_exprs always returns; Ok carries every top-level value in
\* source order, Err carries the first error alone.
C8_ParseExprs ==
    /\ op = "parse_exprs" => pc # "panicked"
    /\ (op = "idle" /\ ret.op = "parse_exprs") =>
          /\ ret.r.status \in {"Ok", "Err"}
          /\ ret.r = RefExprs(start, <<>>)
          /\ ret.r.status = "Ok" =>
                /\ RefTopLevel(StartIdx, <<>>).ok
                /\ ret.r.val = RefTopLevel(StartIdx, <<>>).v

\* What does hold: the same, for the calls that return.
C8_ParseExprsWhenReturning ==
    (op = "idle" /\ ret.op = "parse_exprs") =>
        /\ ret.r.status \in {"Ok", "Err"}
        /\ ret.r = RefExprs(start, <<>>)
        /\ ret.r.status = "Ok" =>
              /\ RefTopLevel(StartIdx, <<>>).ok
              /\ ret.r.val = RefTopLevel(StartIdx, <<>>).v

\* "a DOC b" gave <<a, b>>.
C8_Reached ==
    /\ ReturnedOk("parse_exprs")
    /\ ret.r.val = <<NameV("a"), NameV("b")>>
    /\ \E i \in 1..Len(tokens) : tokens[i].kind = "DocComment"

(***************************************************************************)
(* C9: read_doc_comment returns Some(doc) when the next token is a doc     *)
(* comment and then that token is consumed: a second read_doc_comment does *)
(* not return it again and a following parse_expr starts after it.  When   *)
(* the next token is no doc comment it returns None and leaves the token   *)
(* pending.                                                                *)
(***************************************************************************)
ReturnedDoc == op = "idle" /\ ret.op = "read_doc_comment" /\ ret.r.status = "Ok"

C9_SomeIffDocComment ==
    ReturnedDoc =>
        /\ ret.r.val.some = (tokens[StartIdx].kind = "DocComment")
        /\ ret.r.val.some => ret.r.val.doc = tokens[StartIdx].lex

C9_NoneLeavesPending ==
    (ReturnedDoc /\ ~ret.r.val.some) =>
        /\ cur_token # <<>>
        /\ PendingIdx(Here) = StartIdx

C9_SomeConsumes ==
    (ReturnedDoc /\ ret.r.val.some) => PendingIdx(Here) = StartIdx + 1

\* The call after a read_doc_comment that returned Some.
C9_NextCall ==
    (ReturnedDoc /\ ret.r.val.some) =>
        /\ (ret'.op = "read_doc_comment" /\ ret'.r.status = "Ok"
                /\ ret'.r.val.some) => PendingIdx(start') > PendingIdx(start)
        /\ op' = "parse_expr" => PendingIdx(start') = PendingIdx(start) + 1

\* C9: a returned doc comment is consumed, anything else is left pending.
C9_ReadDocComment ==
    /\ [](C9_SomeIffDocComment /\ C9_NoneLeavesPending /\ C9_SomeConsumes)
    /\ [][C9_NextCall]_vars

\* What does hold: Some exactly on a doc comment, None leaves the token.
C9_PeeksOnly ==
    /\ C9_SomeIffDocComment
    /\ C9_NoneLeavesPending
    /\ ReturnedDoc => PendingIdx(Here) = StartIdx

(***************************************************************************)
(* C10: import_all_constants, import_all_macros and import_all_values copy *)
(* into the destination exactly the bindings of the source whose name is   *)
(* in the source's exports and bound in the source's map of that kind;     *)
(* nothing that is not exported is copied, exported names that are not     *)
(* bound are skipped, exports None gives nothing, and the vector returned  *)
(* lists the names copied, in exports order.                               *)
(***************************************************************************)
ImportOps == {"import_all_constants", "import_all_macros", "import_all_values"}

ImportField(o) ==
    CASE o = "import_all_constants" -> "constants"
      [] o = "import_all_macros"    -> "macros"
      [] o = "import_all_values"    -> "values"

NamespaceFields == {"constants", "macros", "values", "exports", "imports"}

\* The step of an import that returned.
C10_ImportStep ==
    (nops' = nops + 1 /\ sret'.op \in ImportOps /\ sret'.r.status = "Ok") =>
        LET d == sret'.dst
            f == ImportField(sret'.op)
            src == scopes[sret'.src]
            exported == IF src.exports = <<>> THEN <<>> ELSE src.exports[1]
            Bound(n) == n \in DOMAIN src[f]
            copied == SelectSeq(exported, Bound)
            copiedSet == { copied[i] : i \in 1..Len(copied) }
        IN  /\ sret'.r.val = copied
            /\ DOMAIN scopes'[d][f] = DOMAIN scopes[d][f] \cup copiedSet
            /\ \A n \in DOMAIN scopes'[d][f] :
                  scopes'[d][f][n] = IF n \in copiedSet THEN src[f][n]
                                     ELSE scopes[d][f][n]
            /\ \A g \in NamespaceFields \ {f} : scopes'[d][g] = scopes[d][g]
            /\ Len(scopes') = Len(scopes)
            /\ \A t \in ScopeIds \ {d} : scopes'[t] = scopes[t]

C10_WitnessOrder ==
    /\ sret.op = "import_all_values"
    /\ sret.r = Ok(<<"y", "x">>)

\* An exported name that the source does not bind is skipped.
C10_WitnessSkipped ==
    /\ sret.op = "import_all_macros"
    /\ sret.r = Ok(<<"x">>)
    /\ scopes[sret.src].exports = << <<"y", "x">> >>

(***************************************************************************)
(* C11.  Reads of the three maps return the most recent write.             *)
(***************************************************************************)
MapFields == {"constants", "macros", "values"}

AddOp(f) ==
    CASE f = "constants" -> "add_constant"
      [] f = "macros"    -> "add_macro"
      [] f = "values"    -> "add_value"

ImportOp(f) ==
    CASE f = "constants" -> "import_all_constants"
      [] f = "macros"    -> "import_all_macros"
      [] f = "values"    -> "import_all_values"

\* get_constant / get_macro / get_value and contains_* by the map they read.
Get(ns, f, n) ==
    CASE f = "constants" -> get_constant(ns, n)
      [] f = "macros"    -> get_macro(ns, n)
      [] f = "values"    -> get_value(ns, n)

Contains(ns, f, n) ==
    CASE f = "constants" -> contains_constant(ns, n)
      [] f = "macros"    -> contains_macro(ns, n)
      [] f = "values"    -> contains_value(ns, n)

SameOption(a, b) == a.some = b.some /\ (a.some => a.doc = b.doc)

\* What the call that just returned wrote to name n of map f of scope t:
\* Some(v) for add_<f>(n, v) on t, Some(the source's value) for an import
\* into t of an exported name the source binds, None for no write.
C11_Written(t, f, n) ==
    LET c == sret'
        src == scopes[c.src]
    IN  IF c.op = AddOp(f) /\ c.dst = t /\ c.args[1] = n THEN Some(c.args[2])
        ELSE IF /\ c.op = ImportOp(f) /\ c.dst = t /\ c.r.status = "Ok"
                /\ src.exports # <<>>
                /\ \E i \in 1..Len(src.exports[1]) : src.exports[1][i] = n
                /\ MapContains(src[f], n)
             THEN Some(src[f][n])
        ELSE None

\* After every call a get returns what the call wrote, and what it returned
\* before the call when the call wrote nothing to that name.
C11_WriteStep ==
    \A t \in ScopeIds, f \in MapFields, n \in Names :
        SameOption(Get(scopes'[t], f, n),
                   IF C11_Written(t, f, n).some THEN C11_Written(t, f, n)
                   ELSE Get(scopes[t], f, n))

\* A name never written is not bound: a scope just made binds nothing.
C11_NeverWritten ==
    sret.op \in {"none", "new_using"} =>
        \A f \in MapFields, n \in Names :
            ~Get(scopes[IF sret.op = "none" THEN 1 ELSE sret.dst], f, n).some

\* contains_* is true exactly when the get returns Some.
C11_ContainsAgrees ==
    \A t \in ScopeIds, f \in MapFields, n \in Names :
        Contains(scopes[t], f, n) <=> Get(scopes[t], f, n).some

\* C11: after any sequence of add_* and import_all_* calls, get_constant,
\* get_macro and get_value return the value of the most recent write to the
\* name in that map, None when the name was never written there, and
\* contains_* agrees with the get returning Some.
C11_LastWriteWins ==
    /\ [](C11_NeverWritten /\ C11_ContainsAgrees)
    /\ [][C11_WriteStep]_vars

\* add_constant("x", 2) returned on a scope that also binds the value "x",
\* and the constant reads back as 2 while "y" reads as None.
C11_Witness ==
    /\ sret.op = "add_constant"
    /\ sret.args = <<"x", 2>>
    /\ nops >= 3
    /\ get_constant(scopes[sret.dst], "x") = Some(2)
    /\ get_value(scopes[sret.dst], "x") = Some(1)
    /\ ~contains_constant(scopes[sret.dst], "y")

(***************************************************************************)
(* C12.  The three maps are separate key spaces.                           *)
(***************************************************************************)
AddOps == {"add_constant", "add_macro", "add_value"}

AddField(o) ==
    CASE o = "add_constant" -> "constants"
      [] o = "add_macro"    -> "macros"
      [] o = "add_value"    -> "values"

\* The step of add_constant / add_macro / add_value: in the scope it was
\* called on, only the binding of its name in its own map changes.
C12_AddStep ==
    (nops' = nops + 1 /\ sret'.op \in AddOps) =>
        LET t == sret'.dst
            f == AddField(sret'.op)
            n == sret'.args[1]
        IN  /\ Get(scopes'[t], f, n) = Some(sret'.args[2])
            /\ \A m \in Names \ {n} :
                   /\ SameOption(Get(scopes'[t], f, m), Get(scopes[t], f, m))
                   /\ Contains(scopes'[t], f, m) <=> Contains(scopes[t], f, m)
            /\ \A g \in MapFields \ {f}, m \in Names :
                   /\ SameOption(Get(scopes'[t], g, m), Get(scopes[t], g, m))
                   /\ Contains(scopes'[t], g, m) <=> Contains(scopes[t], g, m)
            /\ scopes'[t].exports = scopes[t].exports
            /\ scopes'[t].imports = scopes[t].imports

\* contains_name is true exactly for the names bound in one of the maps.
C12_ContainsName ==
    \A t \in ScopeIds, n \in Names :
        contains_name(scopes[t], n) <=>
            \E f \in MapFields : Get(scopes[t], f, n).some

\* C12: add_constant(n, v) changes only the constants binding of n and
\* leaves get_macro, get_value, contains_macro, contains_value of every name,
\* the exports and the imports unchanged, symmetrically for add_macro and
\* add_value; contains_name(n) is true exactly when n is bound in at least
\* one of the three maps.
C12_SeparateKeySpaces ==
    /\ [](C12_ContainsName)
    /\ [][C12_AddStep]_vars

\* add_value("x", 2) returned on a scope where "x" is also a constant and a
\* macro, and both are still bound; "y" is bound nowhere.
C12_Witness ==
    /\ sret.op = "add_value"
    /\ sret.args = <<"x", 2>>
    /\ get_constant(scopes[sret.dst], "x") = Some(1)
    /\ get_macro(scopes[sret.dst], "x") = Some("f")
    /\ get_value(scopes[sret.dst], "x") = Some(2)
    /\ contains_name(scopes[sret.dst], "x")
    /\ ~contains_name(scopes[sret.dst], "y")

\* add_macro returned on a scope with exports and imports set.
C12_WitnessFrame ==
    /\ sret.op = "add_macro"
    /\ scopes[sret.dst].exports # <<>>
    /\ scopes[sret.dst].imports # <<>>
    /\ get_macro(scopes[sret.dst], "y") = Some("g")

(***************************************************************************)
(* C13.  new_using: an empty namespace, shared name store, code map,       *)
(* module registry and I/O.                                                *)
(***************************************************************************)
\* The step of new_using(s): the new scope has the namespace Namespace::new
\* makes and the four Rc of s; no scope that existed changes.
C13_NewUsingStep ==
    Len(scopes') = Len(scopes) + 1 =>
        LET new == Len(scopes')
        IN  /\ sret'.op = "new_using" /\ sret'.dst = new
            /\ \A f \in MapFields, n \in Names : ~Get(scopes'[new], f, n).some
            /\ scopes'[new].exports = <<>>
            /\ scopes'[new].imports = <<>>
            /\ shared'[new] = shared[sret'.src]
            /\ \A t \in ScopeIds : scopes'[t] = scopes[t] /\ shared'[t] = shared[t]
            /\ name_stores' = name_stores

\* The step of add_name(str) through one scope: the string now has the
\* returned handle when looked up through every scope, and no handle given
\* out before changes.
C13_AddNameStep ==
    (nops' = nops + 1 /\ sret'.op = "add_name") =>
        \A t \in ScopeIds :
            LET before == name_stores[shared[t].name_store]
                after == name_stores'[shared'[t].name_store]
            IN  /\ NameStore_contains(after, sret'.args[1])
                /\ NameStore_get_name(after, sret'.args[1]) = sret'.r.val
                /\ \A i \in 1..Len(before) : after[i] = before[i]

\* The step of add_* / set_exports / add_imports on one scope: the
\* namespace of every other scope is unchanged.
C13_IsolatedStep ==
    (nops' = nops + 1 /\ sret'.op \in AddOps \cup {"set_exports", "add_imports"}) =>
        \A t \in ScopeIds \ {sret'.dst} : scopes'[t] = scopes[t]

\* C13: new_using(s) returns a scope whose namespace is empty whatever s
\* contains and which shares the name store, code map, module registry and
\* I/O of s: a name interned through either scope has the same handle when
\* looked up through the other, and a later add_* / set_exports /
\* add_imports on one scope leaves the namespace of the other unchanged.
C13_NewUsing ==
    /\ [](\A t \in ScopeIds : shared[t] = shared[1])
    /\ [][C13_NewUsingStep /\ C13_AddNameStep /\ C13_IsolatedStep]_vars

\* new_using returned for a scope that binds a constant and has exports
\* and imports; the new namespace is the empty one.
C13_Witness ==
    /\ sret.op = "new_using"
    /\ contains_constant(scopes[sret.src], "x")
    /\ scopes[sret.src].exports # <<>>
    /\ scopes[sret.src].imports # <<>>
    /\ scopes[sret.dst] = Namespace_new

\* add_name through the second scope returned the handle of a string that
\* was interned first of two, while the first scope binds a value the
\* second does not.
C13_WitnessShared ==
    /\ sret.op = "add_name" /\ sret.dst = 2
    /\ sret.r = Ok(1)
    /\ Len(name_stores[shared[1].name_store]) = 2
    /\ contains_value(scopes[1], "x")
    /\ ~contains_value(scopes[2], "x")

(***************************************************************************)
(* C14.  MasterScope::can_define.                                          *)
(***************************************************************************)
\* C14: can_define(n) is false exactly for the names whose handle is below
\* SYSTEM_OPERATORS_END, the standard values together with the system
\* operators, and true for every other name.
C14_CanDefine ==
    mret.op = "query" =>
        /\ mret.r.val.can_define <=> mret.name >= SYSTEM_OPERATORS_END
        /\ ~mret.r.val.can_define <=>
               (is_standard_value(mret.name) \/ is_system_operator(mret.name))

\* can_define returned false for the last system operator.
C14_Witness ==
    /\ mret.op = "query"
    /\ mret.name = SYSTEM_OPERATORS_END - 1
    /\ ~mret.r.val.contains
    /\ ~mret.r.val.can_define

\* can_define returned true for the first name after the system operators.
C14_WitnessUser ==
    /\ mret.op = "query"
    /\ mret.name = SYSTEM_OPERATORS_END
    /\ mret.r.val.can_define

(***************************************************************************)
(* C15.  MasterScope::get and the MasterValues iterator.                   *)
(***************************************************************************)
\* get of a standard value: the booleans for true and false, otherwise the
\* function of the name's own entry of the table.
C15_Get ==
    (mret.op = "query" /\ mret.name < NUM_STANDARD_VALUES) =>
        /\ mret.r.val.get.some
        /\ mret.r.val.get.doc =
              CASE mret.name = TRUE_NAME  -> BoolV(TRUE)
                [] mret.name = FALSE_NAME -> BoolV(FALSE)
                [] OTHER ->
                     [tag |-> "Function", name |-> mret.name,
                      sys_fn |-> [arity |-> SYSTEM_FNS[mret.name + 1].arity,
                                  callback |-> SYSTEM_FNS[mret.name + 1].callback]]

RECURSIVE C15_PairsToCome(_)
\* The number of pairs an iterator at position n yields before None.
C15_PairsToCome(n) ==
    IF MasterValues_next(n).r.status = "Ok" /\ MasterValues_next(n).r.val.some
    THEN 1 + C15_PairsToCome(MasterValues_next(n).next)
    ELSE 0

\* A call of next at position p yields the pair of the name p and its value
\* and moves on by one, for every p below NUM_STANDARD_VALUES, and None at
\* NUM_STANDARD_VALUES; it never fails.
C15_Next ==
    mret.op = "values_next" =>
        /\ mret.r.status = "Ok"
        /\ mret.name <= NUM_STANDARD_VALUES
        /\ mret.r.val.some <=> mret.name < NUM_STANDARD_VALUES
        /\ mret.r.val.some =>
              /\ mret.r.val.doc[1] = mret.name
              /\ mret.r.val.doc[2] = MasterScope_get(mret.name).doc
              /\ mvalues = mret.name + 1
        /\ ~mret.r.val.some => mvalues = mret.name

\* len() is the number of pairs still to come.
C15_Len ==
    /\ MasterValues_len(mvalues) = C15_PairsToCome(mvalues)
    /\ MasterValues_len(0) = NUM_STANDARD_VALUES

C15_WitnessNone ==
    /\ mret.op = "values_next"
    /\ mret.r.status = "Ok" /\ ~mret.r.val.some
    /\ mvalues = NUM_STANDARD_VALUES

\* get returned the function `/=` with its arity Min(2).
C15_WitnessFunction ==
    /\ mret.op = "query"
    /\ mret.r.val.get.some
    /\ mret.r.val.get.doc.tag = "Function"
    /\ mret.r.val.get.doc.sys_fn = [arity |-> Min(2), callback |-> "fn_ne"]

(***************************************************************************)
(* C16.                                                                    *)
(***************************************************************************)
\* The variants of ExecError the callbacks return.
ExecErrorKinds ==
    {"TypeError", "TypeMismatch", "OutOfBounds", "DivideByZero", "Overflow",
     "CompareNaN", "FieldError", "FieldTypeError", "DuplicateField",
     "MissingField", "OddKeywordParams", "InvalidSlice", "NotCharBoundary",
     "FormatError", "Panic"}

\* C16: every callback of SYSTEM_FNS, called on a slice whose length its
\* table arity accepts and whose Lists are non-empty, returns Ok(value) or
\* an Err holding an ExecError; none aborts by indexing outside the slice,
\* unwrapping an absent element or reaching unreachable!().
C16_NoAbort ==
    fret.status # "None" =>
        /\ accepts(SYSTEM_FNS[fcall.f + 1].arity, Len(fcall.args))
        /\ fret.status \in {"Ok", "Err"}
        /\ fret.status = "Err" => fret.err.kind \in ExecErrorKinds

\* `last` has returned the last element of a List.
C16_Witness ==
    /\ fcall.f = HandleOf("fn_last")
    /\ fcall.args = <<List(<<CharV("a"), IntegerV(2)>>)>>
    /\ fret = Ok(IntegerV(2))

\* `-` has been called on the single argument its arity asks for, `>>` on
\* two values that are not both integers, `slice` on its three arguments.
C16_WitnessSub ==
    /\ fcall.f = HandleOf("fn_sub")
    /\ Len(fcall.args) = 1
    /\ fret = Ok(IntegerV(-1))

C16_WitnessShr ==
    /\ fcall.f = HandleOf("fn_shr")
    /\ fcall.args = <<IntegerV(1), CharV("a")>>
    /\ fret.status = "Err"

C16_WitnessSlice ==
    /\ fcall.f = HandleOf("fn_slice")
    /\ fcall.args = <<StringV(<<"a", "e2">>), IntegerV(1), IntegerV(2)>>
    /\ fret = Err(NotCharBoundary(2))

(***************************************************************************)
(* C17.                                                                    *)
(***************************************************************************)
Called(cb) == fret.status # "None" /\ fcall.f = HandleOf(cb)

\* Every two of the arguments can be tested for equality / put in order.
MutuallyEquatable(args) ==
    \A i, j \in 1..Len(args) : is_equal(args[i], args[j]).status = "Ok"
MutuallyComparable(args) ==
    \A i, j \in 1..Len(args) : compare(args[i], args[j]).status = "Ok"

\* Every argument stands in one of the orderings ords to its successor.
AdjacentPairs(args, ords) ==
    \A i \in 1..(Len(args) - 1) : compare(args[i], args[i + 1]).val \in ords

C17_Ordered(cb, ords) ==
    Called(cb) /\ Len(fcall.args) >= 2 /\ MutuallyComparable(fcall.args)
        => fret = Ok(BoolV(AdjacentPairs(fcall.args, ords)))

\* C17: on two or more mutually comparable arguments, `<` is true exactly
\* when every argument is strictly less than its successor, and `>`, `<=`,
\* `>=` likewise for their relation; `=` is true exactly when every
\* argument equals the first; `/=` is true exactly when no two arguments
\* at distinct positions are equal.
C17_Chained ==
    /\ C17_Ordered("fn_lt", {"Less"})
    /\ C17_Ordered("fn_gt", {"Greater"})
    /\ C17_Ordered("fn_le", {"Less", "Equal"})
    /\ C17_Ordered("fn_ge", {"Greater", "Equal"})
    /\ Called("fn_eq") /\ Len(fcall.args) >= 2 /\ MutuallyEquatable(fcall.args)
           => fret = Ok(BoolV(\A i \in 2..Len(fcall.args) :
                                  is_equal(fcall.args[1], fcall.args[i]).val))
    /\ Called("fn_ne") /\ Len(fcall.args) >= 2 /\ MutuallyEquatable(fcall.args)
           => fret = Ok(BoolV(\A i, j \in 1..Len(fcall.args) :
                                  i # j => ~is_equal(fcall.args[i], fcall.args[j]).val))

\* `/=` is false on three arguments of which only the first and the last
\* are equal.
C17_Witness ==
    /\ Called("fn_ne")
    /\ fcall.args = <<IntegerV(1), RatioV(1, 2), FloatV(1, 1)>>
    /\ fret = Ok(BoolV(FALSE))

\* `<` is true on an increasing chain of three kinds of number, `>=` is
\* false on a chain that rises at its end, `=` is true on three equal
\* numbers.
C17_WitnessLt ==
    /\ Called("fn_lt")
    /\ fcall.args = <<IntegerV(-1), RatioV(1, 2), Infinity>>
    /\ fret = Ok(BoolV(TRUE))

C17_WitnessGe ==
    /\ Called("fn_ge")
    /\ fcall.args = <<IntegerV(2), IntegerV(2), IntegerV(3)>>
    /\ fret = Ok(BoolV(FALSE))

C17_WitnessEq ==
    /\ Called("fn_eq")
    /\ fcall.args = <<IntegerV(0), RatioV(0, 1), FloatV(0, 1)>>
    /\ fret = Ok(BoolV(TRUE))

(***************************************************************************)
(* C18.                                                                    *)
(***************************************************************************)
ComparisonFns == {"fn_eq", "fn_ne", "fn_lt", "fn_gt", "fn_le", "fn_ge"}

\* Two values of different types, the three kinds of number being one.
DifferentTypes(a, b) ==
    a.tag # b.tag /\ ~(a.tag \in NumberTags /\ b.tag \in NumberTags)

IsTypeMismatch(r) == r.status = "Err" /\ r.err.kind = "TypeMismatch"

\* C18: a call of `=`, `/=`, `<`, `>`, `<=` or `>=` whose arguments hold
\* values of different types results in a TypeMismatch error, wherever the
\* differently typed value stands in the argument list.
C18_TypeMismatch ==
    \A cb \in ComparisonFns :
        Called(cb) /\ (\E i, j \in 1..Len(fcall.args) :
                           DifferentTypes(fcall.args[i], fcall.args[j]))
            => IsTypeMismatch(fret)

\* The part of C18 the code keeps: the error is raised when the first two
\* arguments are of different types.
C18_FirstPair ==
    \A cb \in ComparisonFns :
        Called(cb) /\ Len(fcall.args) >= 2
                   /\ DifferentTypes(fcall.args[1], fcall.args[2])
            => IsTypeMismatch(fret)

\* `<` has answered false on 2, 1 and a char.
C18_EarlyBreak ==
    /\ Called("fn_lt")
    /\ fcall.args = <<IntegerV(2), IntegerV(1), CharV("a")>>
    /\ fret = Ok(BoolV(FALSE))

(***************************************************************************)
(* C19.                                                                    *)
(***************************************************************************)
\* The greatest integer not above a / b, b # 0.
Floor(a, b) == IF b > 0 THEN a \div b ELSE (-a) \div (-b)

TwoIntegers(args) ==
    Len(args) = 2 /\ args[1].tag = "Integer" /\ args[2].tag = "Integer"

\* C19: for all integers a and b, (// a b) is the Integer floor(a / b) when
\* b # 0, also when the signs differ and b does not divide a, and fails
\* with DivideByZero when b = 0.
C19_FloorDiv ==
    Called("fn_floor_div") /\ TwoIntegers(fcall.args)
        => LET a == fcall.args[1].i
               b == fcall.args[2].i
           IN  IF b = 0 THEN fret = Err(ExecError("DivideByZero"))
               ELSE fret = Ok(IntegerV(Floor(a, b)))

\* What the code computes: the quotient rounded toward zero, which is the
\* floor when the exact quotient is not negative or is whole.
C19_Truncates ==
    Called("fn_floor_div") /\ TwoIntegers(fcall.args)
        => LET a == fcall.args[1].i
               b == fcall.args[2].i
           IN  IF b = 0 THEN fret = Err(ExecError("DivideByZero"))
               ELSE /\ fret = Ok(IntegerV(TruncDiv(a, b)))
                    /\ (a * b >= 0 \/ TruncRem(a, b) = 0) => fret.val.i = Floor(a, b)

\* (// -3 2) has returned -1; the floor of -3/2 is -2.
C19_TowardZero ==
    /\ Called("fn_floor_div")
    /\ fcall.args = <<IntegerV(-3), IntegerV(2)>>
    /\ fret = Ok(IntegerV(-1))

(***************************************************************************)
(* C20.                                                                    *)
(***************************************************************************)
AllNumbers(args) == \A i \in 1..Len(args) : IsNumber(args[i])

\* r is the Ratio a/b in lowest terms.
IsRatioOf(r, a, b) ==
    /\ r.tag = "Ratio"
    /\ r.d > 0
    /\ r.n * b = a * r.d
    /\ \A g \in 2..r.d : ~(r.n % g = 0 /\ r.d % g = 0)

\* div_number on two integers.
C20_Integers(a, b, r) ==
    IF b = 0 THEN r = Err(ExecError("DivideByZero"))
    ELSE IF \E q \in -Abs(a)..Abs(a) : q * b = a
    THEN r = Ok(IntegerV(CHOOSE q \in -Abs(a)..Abs(a) : q * b = a))
    ELSE r.status = "Ok" /\ IsRatioOf(r.val, a, b)

\* C20: `/` folds its arguments from the left with div_number; on integers
\* a and b, b = 0 fails with DivideByZero, b dividing a gives the Integer
\* a/b and otherwise the result is the Ratio a/b; a Ratio divided by a zero
\* Integer or a zero Ratio fails with DivideByZero and no division of
\* integers and ratios gives an infinity; one argument is returned
\* unchanged.
C20_Div ==
    Called("fn_div") /\ AllNumbers(fcall.args)
        => LET args == fcall.args
               first == div_number(args[1], args[2])
           IN  /\ Len(args) = 1 => fret = Ok(args[1])
               /\ Len(args) = 2 => fret = first
               /\ Len(args) = 3 =>
                      fret = IF first.status = "Ok"
                             THEN div_number(first.val, args[3]) ELSE first
               /\ TwoIntegers(args) => C20_Integers(args[1].i, args[2].i, fret)
               /\ Len(args) = 2 /\ args[1].tag = "Ratio"
                      /\ args[2] \in {IntegerV(0), RatioV(0, 1)}
                      => fret = Err(ExecError("DivideByZero"))
               /\ (\A i \in 1..Len(args) : args[i].tag # "Float")
                      => fret.status = "Err" \/ fret.val.tag \in {"Integer", "Ratio"}

\* (/ 3 -2) is the Ratio -3/2.
C20_Witness ==
    /\ Called("fn_div")
    /\ fcall.args = <<IntegerV(3), IntegerV(-2)>>
    /\ fret = Ok(RatioV(-3, 2))

\* A Ratio divided by a zero Ratio; a fold over three arguments whose first
\* quotient is a Ratio; an exact quotient; a single argument.
C20_WitnessZeroRatio ==
    /\ Called("fn_div")
    /\ fcall.args = <<RatioV(1, 2), RatioV(0, 1)>>
    /\ fret = Err(ExecError("DivideByZero"))

C20_WitnessFold ==
    /\ Called("fn_div")
    /\ fcall.args = <<IntegerV(3), IntegerV(2), RatioV(1, 2)>>
    /\ fret = Ok(RatioV(3, 1))

C20_WitnessExact ==
    /\ Called("fn_div")
    /\ fcall.args = <<IntegerV(-2), IntegerV(2)>>
    /\ fret = Ok(IntegerV(-1))

C20_WitnessSingle ==
    /\ Called("fn_div")
    /\ fcall.args = <<RatioV(1, 2)>>
    /\ fret = Ok(RatioV(1, 2))


(***************************************************************************)
(* Re-entering a namespace while a borrow of it is live.                   *)
(***************************************************************************)
\* The methods that take `namespace.borrow_mut()`.
NsMutators == {"add_constant", "add_macro", "add_value", "add_imports",
               "set_exports", "import_all_constants", "import_all_macros",
               "import_all_values"}

ImportAlls == {"import_all_constants", "import_all_macros", "import_all_values"}

\* The step is a call of a namespace-mutating method on a scope whose
\* namespace is borrowed by a running with_* callback, or an import_all_*
\* of a scope from itself.
Reentrant ==
    /\ nops' = nops + 1
    /\ sret'.op \in NsMutators
    /\ \/ NsBorrowed(sret'.dst)
       \/ sret'.op \in ImportAlls /\ sret'.dst = sret'.src

\* C21: a namespace-mutating call on a scope made from inside a with_*
\* callback of that scope, and an import_all_* of a scope from itself, abort
\* at the call and leave every binding of every namespace as it was.
C21_ReentryFails ==
    [][Reentrant => (sret'.r.status = "Panic" /\ scopes' = scopes)]_vars

\* add_value was called from inside a with_* callback of the same scope and
\* aborted.
C21_Witness ==
    /\ sret.op = "add_value"
    /\ NsBorrowed(sret.dst)
    /\ sret.r.status = "Panic"

(***************************************************************************)
(* `new`: the keyword pairs against the definition.                        *)
(***************************************************************************)
\* The positions of the keywords of `new def :k1 v1 ...` / `.= s :k1 v1 ...`.
KeyPositions(args) == {i \in 2..Len(args) : i % 2 = 0}

FieldNames(def) == {def.fields[i][1] : i \in 1..Len(def.fields)}

FieldType(def, name) ==
    def.fields[CHOOSE i \in 1..Len(def.fields) : def.fields[i][1] = name][2]

\* What is wrong, for `new`, with the keyword at position i, if anything.
NewDefect(def, args, i) ==
    IF args[i].tag # "Keyword" THEN "NotKeyword"
    ELSE IF \E j \in KeyPositions(args) : j < i /\ args[j] = args[i] THEN "Repeats"
    ELSE IF i = Len(args) THEN "NoValue"
    ELSE IF args[i].name \notin FieldNames(def) THEN "NotField"
    ELSE IF ~value_is(args[i + 1], FieldType(def, args[i].name)) THEN "WrongType"
    ELSE "None"

\* The keywords name every field of def once each, each followed by a
\* value of the field's declared type.
NewWellFormed(def, args) ==
    /\ Len(args) % 2 = 1
    /\ \A i \in KeyPositions(args) : args[i].tag = "Keyword"
    /\ \A i, j \in KeyPositions(args) : args[i] = args[j] => i = j
    /\ {args[i].name : i \in KeyPositions(args)} = FieldNames(def)
    /\ \A i \in KeyPositions(args) :
           value_is(args[i + 1], FieldType(def, args[i].name))

\* The first position of a keyword something is wrong with.
FirstDefect(def, args) ==
    CHOOSE i \in KeyPositions(args) :
        /\ NewDefect(def, args, i) # "None"
        /\ \A j \in KeyPositions(args) : j < i => NewDefect(def, args, j) = "None"

\* C22: `new def :k1 v1 ... :kn vn` returns a struct exactly when the
\* keywords name every field of def once each and every value has its
\* field's declared type, and the struct then holds those values; otherwise
\* it returns an error and no struct: at the first keyword something is
\* wrong with, DuplicateField if it repeats an earlier keyword, else
\* OddKeywordParams if no value follows it, else FieldError if it is not a
\* field of def, else FieldTypeError if the value has the wrong type; and
\* when nothing is wrong with any keyword, MissingField naming the first
\* field of def, in def order, that no keyword supplied.
C22_New ==
    Called("fn_new") /\ fcall.args[1].tag = "StructDef" =>
        LET args == fcall.args
            def == args[1]
            bad == {i \in KeyPositions(args) : NewDefect(def, args, i) # "None"}
        IN  /\ fret.status \in {"Ok", "Err"}
            /\ fret.status = "Ok" <=> NewWellFormed(def, args)
            /\ fret.status = "Ok" =>
                   /\ fret.val.tag = "Struct"
                   /\ fret.val.def = def
                   /\ \A i \in KeyPositions(args) :
                          <<args[i].name, args[i + 1]>> \in
                              {fret.val.fields[k] : k \in 1..Len(fret.val.fields)}
            /\ fret.status = "Err" /\ bad # {} =>
                   LET i == FirstDefect(def, args)
                       d == NewDefect(def, args, i)
                   IN  /\ d = "NotKeyword" => fret.err.kind = "TypeError"
                       /\ d = "Repeats" =>
                              fret.err = [kind |-> "DuplicateField",
                                          field |-> args[i].name]
                       /\ d = "NoValue" => fret.err.kind = "OddKeywordParams"
                       /\ d = "NotField" =>
                              /\ fret.err.kind = "FieldError"
                              /\ fret.err.field = args[i].name
                       /\ d = "WrongType" =>
                              /\ fret.err.kind = "FieldTypeError"
                              /\ fret.err.field = args[i].name
                              /\ fret.err.expected = FieldType(def, args[i].name)
            /\ fret.status = "Err" /\ bad = {} =>
                   /\ fret.err.kind = "MissingField"
                   /\ fret.err.field \in FieldNames(def)
                   /\ \E k \in 1..Len(def.fields) :
                          /\ def.fields[k][1] = fret.err.field
                          /\ \A i \in KeyPositions(args) :
                                 args[i].name # fret.err.field
                          /\ \A m \in 1..(k - 1) : \E i \in KeyPositions(args) :
                                 args[i].name = def.fields[m][1]

\* (new point :y 1.5 :x 1) has returned a struct.
C22_Witness ==
    /\ Called("fn_new")
    /\ fcall.args = <<PointDef, KeywordV("y"), FloatV(1, 2), KeywordV("x"), IntegerV(1)>>
    /\ fret.status = "Ok"

\* (new point): both fields are missing, and x is the one named.
C22_WitnessMissing ==
    /\ Called("fn_new")
    /\ fcall.args = <<PointDef>>
    /\ fret.status = "Err"
    /\ fret.err.kind = "MissingField"
    /\ fret.err.field = "x"

\* (new point :x 1 :x): the repeated keyword decides, not the missing value.
C22_WitnessRepeats ==
    /\ Called("fn_new")
    /\ fcall.args = <<PointDef, KeywordV("x"), IntegerV(1), KeywordV("x")>>
    /\ fret.status = "Err"
    /\ fret.err.kind = "DuplicateField"

(***************************************************************************)
(* `.=`: copy-on-write.                                                    *)
(***************************************************************************)
\* The step is the call of the system function with callback cb.
Calls(cb) ==
    /\ fret.status = "None"
    /\ fret'.status # "None"
    /\ fcall'.f = HandleOf(cb)

\* The value given last for the field name among the keyword pairs of args.
LastGiven(args, name) ==
    LET i == CHOOSE i \in KeyPositions(args) :
                 /\ args[i] = KeywordV(name)
                 /\ \A j \in KeyPositions(args) : args[j] = KeywordV(name) => j <= i
    IN  args[i + 1]

\* C23: when the record passed to `.=` is also held elsewhere, the record
\* the other holders see has after the call, successful or not, the fields
\* and the definition it had before; and the struct a successful call
\* returns has the definition and the field names of the one passed, in
\* every field a keyword names the value given last for it, and in every
\* other field the value the passed one has.
C23_CopyOnWrite ==
    [][Calls("fn_dot_eq") =>
          LET args == fcall'.args
              h == args[1].id
          IN  /\ HasFree(rcs) /\ CallDotEq(h, Tail(args), FALSE) =>
                     /\ rcs[h].holders > 0
                     /\ rcs'[h] = rcs[h]
                     /\ Rc_deref(rcs', h) = args[1]
              /\ fret'.status = "Ok" =>
                     /\ fret'.val.tag = "Struct"
                     /\ fret'.val.def = args[1].def
                     /\ Len(fret'.val.fields) = Len(args[1].fields)
                     /\ \A k \in 1..Len(args[1].fields) :
                            LET name == args[1].fields[k][1]
                            IN  /\ fret'.val.fields[k][1] = name
                                /\ fret'.val.fields[k][2] =
                                     IF \E i \in KeyPositions(args) :
                                            args[i] = KeywordV(name)
                                     THEN LastGiven(args, name)
                                     ELSE args[1].fields[k][2]]_vars

\* (.= p :y 1.5) on a point p that is also held elsewhere has returned a
\* point with y = 1.5, and the one held elsewhere has y = 1.
C23_Witness ==
    /\ Called("fn_dot_eq")
    /\ Len(fcall.args) = 3
    /\ fcall.args[1].fields = << <<"x", IntegerV(1)>>, <<"y", IntegerV(1)>> >>
    /\ fcall.args[2] = KeywordV("y")
    /\ fcall.args[3] = FloatV(1, 2)
    /\ fret.status = "Ok"
    /\ fret.val.id # fcall.args[1].id
    /\ fret.val.fields = << <<"x", IntegerV(1)>>, <<"y", FloatV(1, 2)>> >>
    /\ rcs[fcall.args[1].id].holders > 0
    /\ rcs[fcall.args[1].id].fields = fcall.args[1].fields

\* (.= p :y 1.5 :x "a") has failed at its second pair, and the point held
\* elsewhere has the y it had.
C23_WitnessPartWay ==
    /\ Called("fn_dot_eq")
    /\ Len(fcall.args) = 5
    /\ fcall.args[1].fields = << <<"x", IntegerV(1)>>, <<"y", IntegerV(1)>> >>
    /\ fcall.args[2] = KeywordV("y")
    /\ fcall.args[3] = FloatV(1, 2)
    /\ fcall.args[4] = KeywordV("x")
    /\ fcall.args[5] = StringV(<<"a">>)
    /\ fret.status = "Err"
    /\ fret.err.kind = "FieldTypeError"
    /\ rcs[fcall.args[1].id].holders > 0
    /\ rcs[fcall.args[1].id].fields = fcall.args[1].fields

(***************************************************************************)
(* Structs are well formed.                                                *)
(***************************************************************************)
\* The value v satisfies the declared type ty.
Satisfies(v, ty) ==
    CASE ty = "number" -> v.tag \in {"Integer", "Ratio", "Float"}
      [] ty = "list"   -> v.tag \in {"Unit", "List"}
      [] OTHER         -> type_of(v) = ty

\* The fields are those of def, each once, each of its declared type.
WellFormed(def, fields) ==
    /\ def.tag = "StructDef"
    /\ {fields[k][1] : k \in 1..Len(fields)} = FieldNames(def)
    /\ \A j, k \in 1..Len(fields) : fields[j][1] = fields[k][1] => j = k
    /\ \A k \in 1..Len(fields) :
           Satisfies(fields[k][2], FieldType(def, fields[k][1]))

\* C30: every struct that successful calls of `new` and `.=` have made is
\* well formed: its field names are those of its definition, each exactly
\* once, and every field value satisfies the type declared for the field,
\* where number accepts Integer, Ratio and Float and list accepts Unit and
\* List; and `.=` returns a struct with the definition and the field names
\* of the one it was given.
C30_WellFormed ==
    /\ [](/\ \A h \in 1..MaxRcs :
                rcs[h].holders > 0 => WellFormed(rcs[h].def, rcs[h].fields)
          /\ (Called("fn_new") \/ Called("fn_dot_eq")) /\ fret.status = "Ok" =>
                /\ fret.val.tag = "Struct"
                /\ WellFormed(fret.val.def, fret.val.fields))
    /\ [][Calls("fn_dot_eq") /\ fret'.status = "Ok" =>
             /\ fret'.val.def = fcall'.args[1].def
             /\ [k \in 1..Len(fret'.val.fields) |-> fret'.val.fields[k][1]]
                  = [k \in 1..Len(fcall'.args[1].fields) |->
                         fcall'.args[1].fields[k][1]]]_vars

\* A point made by `new` with an Integer y, then written by `.=` to hold a
\* Float y, and a bag holding Unit as its list: both allocations are live.
C30_Witness ==
    /\ Called("fn_dot_eq")
    /\ fret.status = "Ok"
    /\ fret.val.def = PointDef
    /\ fcall.args[1].fields = << <<"y", IntegerV(1)>>, <<"x", IntegerV(1)>> >>
    /\ fret.val.fields = << <<"y", FloatV(1, 2)>>, <<"x", IntegerV(1)>> >>
    /\ \E h \in 1..MaxRcs :
           /\ rcs[h].holders > 0
           /\ rcs[h].def = BagDef
           /\ rcs[h].fields = << <<"y", Unit>> >>

(***************************************************************************)
(* `slice`.                                                                *)
(***************************************************************************)
\* The length `len` gives: elements of a list, bytes of a string.
LenOf(v) ==
    CASE v.tag = "Unit" -> 0
      [] v.tag = "List" -> Len(v.items)
      [] v.tag = "String" -> Len(as_bytes(v.s))

\* The byte offsets at which a char of the string starts, and its length.
CharBoundaries(s) == {Len(as_bytes(SubSeq(s, 1, k))) : k \in 0..Len(s)}

\* The number of chars in the first n bytes of s, n a char boundary.
CharsBefore(s, n) == CHOOSE k \in 0..Len(s) : Len(as_bytes(SubSeq(s, 1, k))) = n

\* The half-open subsequence [b, e) of v.
SubsequenceOf(v, b, e) ==
    CASE v.tag = "Unit" -> Unit
      [] v.tag = "List" -> IF b = e THEN Unit ELSE List(SubSeq(v.items, b + 1, e))
      [] v.tag = "String" ->
             StringV(SubSeq(v.s, CharsBefore(v.s, b) + 1, CharsBefore(v.s, e)))

\* C24: `slice s begin end` on Unit, a list or a string of length n (bytes
\* for strings), begin and end not negative, returns the subsequence
\* [begin, end), whose len is end - begin, when begin <= end <= n and, for
\* a string, both are char boundaries; otherwise it returns the first of:
\* InvalidSlice(begin, end) if end < begin, OutOfBounds(begin) if begin > n,
\* OutOfBounds(end) if end > n, NotCharBoundary(begin), NotCharBoundary(end).
\* On Unit only (0, 0) succeeds, with Unit.  An index that is negative or
\* no integer makes the call fail.
C24_Slice ==
    Called("fn_slice") =>
        LET s == fcall.args[1]
            bv == fcall.args[2]
            ev == fcall.args[3]
        IN  /\ (bv.tag # "Integer" \/ ev.tag # "Integer"
                  \/ s.tag \notin {"Unit", "List", "String"}) => fret.status = "Err"
            /\ (bv.tag = "Integer" /\ ev.tag = "Integer" /\ (bv.i < 0 \/ ev.i < 0))
                  => fret.status = "Err"
            /\ (/\ bv.tag = "Integer" /\ ev.tag = "Integer"
                /\ bv.i >= 0 /\ ev.i >= 0
                /\ s.tag \in {"Unit", "List", "String"}) =>
                  LET b == bv.i
                      e == ev.i
                      n == LenOf(s)
                      bounds == IF s.tag = "String" THEN CharBoundaries(s.s)
                                ELSE 0..n
                  IN  IF b <= e /\ e <= n /\ b \in bounds /\ e \in bounds
                      THEN /\ fret = Ok(SubsequenceOf(s, b, e))
                           /\ fn_len(<<fret.val>>) = Ok(IntegerV(e - b))
                           /\ s.tag = "Unit" => b = 0 /\ e = 0 /\ fret.val = Unit
                      ELSE /\ fret.status = "Err"
                           /\ fret.err =
                                IF e < b THEN InvalidSlice(b, e)
                                ELSE IF b > n THEN OutOfBounds(b)
                                ELSE IF e > n THEN OutOfBounds(e)
                                ELSE IF b \notin bounds THEN NotCharBoundary(b)
                                ELSE NotCharBoundary(e)

\* (slice "éé" 2 4) has returned "é", the second char.
C24_Witness ==
    /\ Called("fn_slice")
    /\ fcall.args = <<StringV(<<"e2", "e2">>), IntegerV(2), IntegerV(4)>>
    /\ fret = Ok(StringV(<<"e2">>))

\* (slice "éé" 1 3): both bounds are inside a char, and begin is reported.
C24_WitnessBoundary ==
    /\ Called("fn_slice")
    /\ fcall.args = <<StringV(<<"e2", "e2">>), IntegerV(1), IntegerV(3)>>
    /\ fret = Err(NotCharBoundary(1))

\* (slice '(a 2) 5 4): end < begin is reported, not the bounds beyond the
\* list.
C24_WitnessInvalid ==
    /\ Called("fn_slice")
    /\ fcall.args = <<List(<<CharV("a"), IntegerV(2)>>), IntegerV(5), IntegerV(4)>>
    /\ fret = Err(InvalidSlice(5, 4))

(***************************************************************************)
(* No zero-length List.                                                    *)
(***************************************************************************)
RECURSIVE NoEmptyList(_)
\* No List in v, at any depth, is without elements.
NoEmptyList(v) ==
    CASE v.tag = "List" ->
             /\ Len(v.items) >= 1
             /\ \A i \in 1..Len(v.items) : NoEmptyList(v.items[i])
      [] v.tag \in MetaTags -> NoEmptyList(v.inner)
      [] OTHER -> TRUE

\* The elements of a list value.
ItemsOf(v) == IF v.tag = "List" THEN v.items ELSE <<>>

\* C25: a value returned by append, concat, join, slice, init, tail, list,
\* reverse or chars, and a value the reader returned, holds no List without
\* elements: where the result has no elements it is Unit.  So tail and init
\* of a one-element list, slice over an empty range, list of no arguments,
\* chars of the empty string and the reader's `()` are Unit, and for
\* append(Unit, x): first is x and tail is Unit.
C25_NoEmptyList ==
    /\ (op = "idle" /\ ret.op = "parse_expr" /\ ret.r.status = "Ok") =>
           NoEmptyList(ret.r.val)
    /\ (fret.status = "Ok" /\ \E cb \in ListFns : fcall.f = HandleOf(cb)) =>
           /\ NoEmptyList(fret.val)
           /\ \A i \in 1..Len(fcall.args) : NoEmptyList(fcall.args[i])
    /\ (Called("fn_tail") \/ Called("fn_init")) /\ fret.status = "Ok" =>
           /\ Len(ItemsOf(fret.val)) = Len(fcall.args[1].items) - 1
           /\ Len(fcall.args[1].items) = 1 => fret.val = Unit
    /\ (Called("fn_slice") /\ fret.status = "Ok"
          /\ fcall.args[1].tag = "List" /\ fcall.args[2] = fcall.args[3]) =>
           fret.val = Unit
    /\ (Called("fn_list") /\ fcall.args = <<>>) => fret = Ok(Unit)
    /\ (Called("fn_chars") /\ fcall.args = <<StringV(<<>>)>>) => fret = Ok(Unit)
    /\ (Called("fn_reverse") /\ fret.status = "Ok") =>
           Len(ItemsOf(fret.val)) = Len(ItemsOf(fcall.args[1]))
    /\ (Called("fn_append") /\ fret.status = "Ok") =>
           /\ ItemsOf(fret.val) = ItemsOf(fcall.args[1]) \o Tail(fcall.args)
           /\ (fcall.args[1] = Unit /\ Len(fcall.args) = 2) =>
                  /\ fn_first(<<fret.val>>) = Ok(fcall.args[2])
                  /\ fn_tail(<<fret.val>>) = Ok(Unit)
    /\ (Called("fn_concat") /\ fret.status = "Ok"
          /\ \A i \in 1..Len(fcall.args) : fcall.args[i] = Unit) =>
           fret.val = Unit

\* The reader returned (a), and tail of it has returned Unit.
C25_Witness ==
    /\ ret.op = "parse_expr"
    /\ ret.r.status = "Ok"
    /\ ret.r.val.tag = "List"
    /\ Called("fn_tail")
    /\ fcall.args = <<ret.r.val>>
    /\ fret = Ok(Unit)

\* The reader returned Unit for `()`, and append of one value to it has
\* returned a one-element list.
C25_WitnessAppend ==
    /\ tokens[1].kind = "LeftParen"
    /\ ret.op = "parse_expr"
    /\ ret.r = Ok(Unit)
    /\ Called("fn_append")
    /\ fcall.args = <<Unit, IntegerV(1)>>
    /\ fret = Ok(List(<<IntegerV(1)>>))

\* chars of the empty string that slice returned is Unit.
C25_WitnessChars ==
    /\ Called("fn_chars")
    /\ fcall.args = <<StringV(<<>>)>>
    /\ fret = Ok(Unit)

(***************************************************************************)
(* print and println.                                                      *)
(***************************************************************************)
\* The text the call of cb on args hands to the writer.
TextOf(cb, args) ==
    LET s == format_string(args[1].s, Tail(args)).val
    IN  IF cb = "fn_print" THEN s
        ELSE IF s # <<>> /\ s[Len(s)] = "\n" THEN s
        ELSE s \o <<"\n">>

\* The step of a call of cb, print or println.
PrintStep(cb) ==
    LET args == fcall'.args
        formats == /\ args[1].tag = "String"
                   /\ format_string(args[1].s, Tail(args)).status = "Ok"
    IN  /\ ~formats => fret'.status = "Err" /\ stdout' = stdout
        /\ formats /\ fret'.status = "Ok" =>
               /\ fret' = Ok(Unit)
               /\ stdout' = stdout \o <<Written(TextOf(cb, args), TRUE),
                                        Flushed(TRUE)>>
        /\ formats /\ fret'.status # "Ok" =>
               /\ fret' = Err(IoError)
               /\ \/ \E k \in 0..Len(TextOf(cb, args)) :
                        stdout' = Append(stdout,
                                    Written(SubSeq(TextOf(cb, args), 1, k), FALSE))
                  \/ stdout' = stdout \o <<Written(TextOf(cb, args), TRUE),
                                           Flushed(FALSE)>>

\* C26: a successful call of print or println hands its whole text to the
\* writer in one write and then flushes, and returns Unit, so that what
\* was written is in call order with a flush after each write; the text of
\* println is the formatted text with one newline added unless it ends in
\* one; when formatting fails nothing is written; when the write fails no
\* flush follows it and the call returns the I/O error.
C26_Print ==
    /\ [][(Calls("fn_print") => PrintStep("fn_print"))
          /\ (Calls("fn_println") => PrintStep("fn_println"))]_vars
    /\ [](\A i \in 1..Len(stdout) :
             /\ (stdout[i].ev = "flush") =>
                    i > 1 /\ stdout[i - 1].ev = "write" /\ stdout[i - 1].ok
             /\ (stdout[i].ev = "write" /\ ~stdout[i].ok /\ i < Len(stdout)) =>
                    stdout[i + 1].ev = "write")

\* (println "a") then (println "a\n") have each written "a\n" and flushed.
C26_Witness ==
    /\ Called("fn_println")
    /\ fcall.args = <<StringV(<<"a", "\n">>)>>
    /\ fret = Ok(Unit)
    /\ stdout = <<Written(<<"a", "\n">>, TRUE), Flushed(TRUE),
                  Written(<<"a", "\n">>, TRUE), Flushed(TRUE)>>

\* A write of print failed part-way: no flush followed, and the call
\* returned the I/O error.
C26_WitnessWriteFails ==
    /\ Called("fn_print")
    /\ fcall.args = <<StringV(<<"a", "a">>)>>
    /\ fret = Err(IoError)
    /\ stdout = <<Written(<<"a">>, FALSE)>>

\* The Lambdas alive that refer to scope s.
LambdasOf(s) ==
    {i \in 1..Len(Alive(lams, stored, released)) :
         Alive(lams, stored, released)[i].scope.to = s}

\* C27: a Lambda never keeps its defining scope alive.  Every Lambda alive,
\* made by Lambda::new or Lambda::new_closure, cloned, or stored in the
\* macros, constants or values of any scope, holds a weak reference, so the
\* strong count of a scope is the number of Scope handles; the scope is
\* dropped exactly when the last handle is, its namespace with it; and an
\* upgrade of a Lambda's reference yields a scope exactly when a handle was
\* left, and fails once the last handle has been dropped.
C27_WeakScope ==
    /\ [](/\ \A i \in 1..Len(Alive(lams, stored, released)) :
                 Alive(lams, stored, released)[i].scope.kind = "Weak"
          /\ \A s \in LamScopes :
                 /\ strong_count(s, held, lams, stored, released) = held[s]
                 /\ s \in released <=> held[s] = 0
                 /\ s \in released => stored[s] = <<>>
          /\ lret.op = "upgrade" =>
                 (lret.r = "None" <=> lret.handles = 0))
    /\ [][\A s \in LamScopes :
              (held[s] = 1 /\ held'[s] = 0) =>
                  /\ s \in released'
                  /\ \A i \in 1..Len(lams') :
                         lams'[i].scope.to = s =>
                             Weak_upgrade(lams'[i].scope, released') = "None"]_vars

\* A Lambda of scope 1 was alive after the last handle of scope 1 had been
\* dropped, and upgrading its reference failed.
C27_Witness ==
    /\ lret.op = "upgrade"
    /\ lret.r = "None"
    /\ lret.lam.scope.to = 1
    /\ 1 \in released
    /\ LambdasOf(1) # {}

\* A scope holds, in its own values, a Lambda it defined, and one handle of
\* it is left.
C27_WitnessCycle ==
    /\ held[1] = 1
    /\ \E j \in 1..Len(stored[1]) :
           /\ stored[1][j].lam.scope.to = 1
           /\ stored[1][j].field = "values"

\* A closure of a released scope is held in the macros of another scope.
C27_WitnessElsewhere ==
    /\ 1 \in released
    /\ \E j \in 1..Len(stored[2]) :
           /\ stored[2][j].lam.scope.to = 1
           /\ stored[2][j].lam.values = "Some"
           /\ stored[2][j].field = "macros"

(***************************************************************************)
(* C28: the backtick counter of parse_expr and the groups on its stack.    *)
(***************************************************************************)
\* The counter is the backquotes minus the unquotes of the groups on the
\* stack, and is not negative; so it is 0 when the stack is empty.
CounterIsBalance ==
    /\ total_backticks = OpenBalance(stack)
    /\ total_backticks >= 0
    /\ stack = <<>> => total_backticks = 0

\* The statement as the specification words it: at every point of parse_expr.
C28_AtEveryPoint == CounterIsBalance

\* parse_expr is about to read a `)` while a marker group is on top.
ClosesMarker ==
    /\ pc = "expr"
    /\ stack # <<>>
    /\ Last(stack).g # "Parens"
    /\ PendingTok.kind = "RightParen"

\* parse_expr has left with the error of a `)` that closed a marker group.
ClosedMarker ==
    /\ pc # "expr"
    /\ ret.r.status = "Err"
    /\ ret.r.err.kind = "UnexpectedToken"
    /\ ret.r.err.expected = "expression"

\* C28: at the head of every iteration of parse_expr's loop and whenever it
\* returns, the backtick counter is the sum of the counts of the Backticks
\* groups on the stack minus the number of CommaAt groups, it is not
\* negative, and it is 0 when the stack is empty, as it is when parse_expr
\* returns Ok; except on the one exit where a `)` pops a marker group, whose
\* count stays in the counter while parse_expr returns the error.
C28_Counter ==
    /\ [](/\ ~ClosedMarker => CounterIsBalance
          /\ total_backticks >= 0
          /\ (op = "idle" /\ ret.op = "parse_expr" /\ ret.r.status = "Ok") =>
                 (stack = <<>> /\ total_backticks = 0))
    /\ [][ClosesMarker =>
              /\ ClosedMarker'
              /\ stack' = Front(stack)
              /\ total_backticks' = total_backticks
              /\ OpenBalance(stack') =
                     total_backticks'
                         - (OpenBalance(stack) - OpenBalance(Front(stack)))]_vars

\* The loop is at its head with a Backticks group, a Parens group and a
\* CommaAt group on the stack.
C28_Witness ==
    /\ pc = "expr"
    /\ Len(stack) = 3
    /\ stack[1].g = "Backticks"
    /\ stack[2].g = "Parens"
    /\ stack[3].g = "CommaAt"
    /\ total_backticks = 0

\* parse_expr returned Ok after it had applied a backquote and a comma-at.
C28_WitnessOk ==
    /\ op = "idle" /\ ret.op = "parse_expr" /\ ret.r.status = "Ok"
    /\ tokens[1].kind = "BackQuote"
    /\ tokens[2].kind = "CommaAt"
    /\ start.lexpos = 1
    /\ stack = <<>>

\* A `)` has closed a backquote: the stack is empty and the counter is 1.
C28_WitnessClosedMarker ==
    /\ ClosedMarker
    /\ stack = <<>>
    /\ total_backticks = 1

(***************************************************************************)
(* C29: parse_expr ends, and an Ok return has read one expression.         *)
(***************************************************************************)
MarkerKinds == {"BackQuote", "Comma", "CommaAt", "Quote"}

\* The grammar of one expression, read off the token stream alone: the index
\* of the last token of the complete expression that begins at token j
\* (markers, then an atom or a balanced parenthesis group), 0 when the
\* tokens from j on begin no complete expression.
RECURSIVE ExprEnd(_), ListEnd(_)
ExprEnd(j) ==
    IF j > Len(tokens) THEN 0
    ELSE CASE tokens[j].kind \in MarkerKinds -> ExprEnd(j + 1)
           [] tokens[j].kind \in AtomKinds   -> j
           [] tokens[j].kind = "LeftParen"   -> ListEnd(j + 1)
           [] OTHER                          -> 0

\* The index of the `)` that closes the list whose items begin at token j.
ListEnd(j) ==
    IF j > Len(tokens) THEN 0
    ELSE IF tokens[j].kind = "RightParen" THEN j
    ELSE IF ExprEnd(j) = 0 THEN 0
    ELSE ListEnd(ExprEnd(j) + 1)

MaxFairTokens == 3

\* The finite token streams that end in End.
FairStreams == { s \o <<EndTok>> : s \in SeqsUpTo(Alphabet, MaxFairTokens) }

FairInit ==
    /\ \E stream \in FairStreams : ParserInit(stream)
    /\ ScopeInit
    /\ MasterInit
    /\ FnInit
    /\ LambdaInit

\* parse_expr called again and again on one parser.
FairNext == CallParseExpr \/ ParseExprStep

\* A call of parse_expr runs on: its loop takes the next step while it can.
FairSpec == FairInit /\ [][FairNext]_vars /\ WF_vars(ParseExprStep)

\* parse_expr returned Ok: no token is buffered, the stack is empty, and the
\* tokens read are those of the expression that began at the pending token.
OkConsumesOne ==
    (op = "idle" /\ ret.op = "parse_expr" /\ ret.r.status = "Ok") =>
        /\ cur_token = <<>>
        /\ stack = <<>>
        /\ ExprEnd(PendingIdx(start)) # 0
        /\ lexpos = ExprEnd(PendingIdx(start)) + 1

\* A call of parse_expr begins at the token the call before it stopped at.
CallBeginsWhereLeft ==
    (op = "idle" /\ op' = "parse_expr") =>
        /\ start' = Here
        /\ cur_token' = cur_token
        /\ lexpos' = lexpos
        /\ tokens' = tokens

\* A step of parse_expr reads one token, the pending one, and none twice.
ReadsOneToken ==
    (pc = "expr" /\ (lexpos' # lexpos \/ cur_token' # cur_token)) =>
        /\ cur_token' = <<>>
        /\ lexpos' = (IF PendingIdx(Here) < Len(tokens)
                      THEN PendingIdx(Here) + 1 ELSE Len(tokens))

C29_WitnessEnd ==
    /\ op = "idle" /\ ret.op = "parse_expr" /\ ret.r.status = "Err"
    /\ ret.r.err.kind = "MissingCloseParen"
    /\ stack # <<>>

=============================================================================
